---- MODULE Spec2Model ----
(***************************************************************************)
(* Recycler ranking (MarketplaceService), routing with haversine fallback  *)
(* (OSMService) and dual-tier retrieval (RAGService) of the ReNova backend. *)
(*                                                                         *)
(* Fixed-point units used throughout:                                      *)
(*   coordinates      grid steps of 0.05 degree (lat 259 = 12.95 N)        *)
(*   distance_m       metres                                               *)
(*   distance_km      hundredths of a km   (Python round(x, 2))            *)
(*   duration_min     tenths of a minute   (Python round(x, 1))            *)
(*   sub-scores       1/10000              (1.0 = 10000)                   *)
(*   weights          1/100                (0.30 = 30)                     *)
(*   total_score      1/1000000                                            *)
(*   rates            hundredths of a credit per kg                        *)
(* An optional dict key is a sequence of length 0 (absent) or 1 (present). *)
(***************************************************************************)
EXTENDS Integers, Sequences, FiniteSets, TLC

VARIABLES
    recyclers,    \* the recyclers collection, in natural (insertion) order
    geoIndex,     \* whether the collection has a 2dsphere index on location
    rankCall,     \* inputs of the last rank_recyclers call
    rankOut,      \* its outcome
    rankPrev,     \* the request and the list of the call before a repeated one
    routeCall,    \* inputs of the last get_route call
    routeOut,     \* its outcome
    ragPersonal,  \* the rag_personal collection
    ragGlobal,    \* the rag_global collection
    idxPersonal,  \* personal_rag_vector_db: sequence of [id, emb]
    idxGlobal,    \* global_rag_vector_db: sequence of [id, emb]
    ragInit,      \* RAGService.initialized
    ragTasks,     \* the two coroutines of a dual_retrieve in progress
    ragOut,       \* outcome of the last retrieval call
    scanCall,     \* inputs of the last scan_image request, up to its fusion step
    scanOut,      \* the fused vector, or the error
    tokens,       \* the tokens collection
    wallets,      \* the wallets collection
    redemptions,  \* the token_redemptions collection
    redeemCalls   \* the redeem_token requests, finished or in progress

vars == <<recyclers, geoIndex, rankCall, rankOut, rankPrev, routeCall, routeOut,
          ragPersonal, ragGlobal, idxPersonal, idxGlobal, ragInit, ragTasks, ragOut,
          scanCall, scanOut, tokens, wallets, redemptions, redeemCalls>>

rankVars == <<recyclers, geoIndex, rankCall, rankOut, rankPrev>>
routeVars == <<routeCall, routeOut>>
scanVars == <<scanCall, scanOut>>
tokenVars == <<tokens, wallets, redemptions, redeemCalls>>
ragVars == <<ragPersonal, ragGlobal, idxPersonal, idxGlobal, ragInit, ragTasks, ragOut>>

(***************************************************************************)
(* Generic helpers                                                         *)
(***************************************************************************)
Max(a, b) == IF a >= b THEN a ELSE b

Min(a, b) == IF a <= b THEN a ELSE b

\* dict.get(key, default) on an optional key
Get(opt, default) == IF opt = <<>> THEN default ELSE opt[1]

\* s[:n]
Take(s, n) == SubSeq(s, 1, Min(n, Len(s)))

\* Python round(): round-half-even of n / d, for n >= 0, d > 0
RoundDiv(n, d) ==
    LET q == n \div d
        r == n % d
    IN  IF 2 * r > d \/ (2 * r = d /\ q % 2 = 1) THEN q + 1 ELSE q

RECURSIVE ISqrtBetween(_, _, _)
ISqrtBetween(x, lo, hi) ==
    IF lo >= hi THEN lo
    ELSE LET mid == (lo + hi + 1) \div 2
         IN  IF mid * mid <= x THEN ISqrtBetween(x, mid, hi)
             ELSE ISqrtBetween(x, lo, mid - 1)

\* floor(math.sqrt(x)) for 0 <= x < 46340^2
ISqrt(x) == ISqrtBetween(x, 0, 46339)

(***************************************************************************)
(* Haversine (osm_service._haversine_route, marketplace._haversine_distance)*)
(***************************************************************************)
EarthRadiusKm == 6371

\* math.pi in 1e-5
PiE5 == 314159

\* 180 degrees and 87.5 degrees in grid steps (20 steps to a degree)
HalfTurnSteps == 180 * 20

PolarLat == 875 * 2

\* math.radians of one grid step (0.05 degree), in 1e-9 rad: pi/3600
StepNanoRad == (PiE5 * 1000) \div 360

\* R * radians(one step), in metres
MetresPerStep == (EarthRadiusKm * (StepNanoRad \div 100)) \div 10000

\* math.cos(math.radians(lat)) in 1/1000, by the Taylor series 1 - x^2/2 + x^4/24
Cos1000(lat) ==
    LET xMicro == (lat * StepNanoRad) \div 1000        \* x in 1e-6 rad
        x2 == ((xMicro \div 100) * (xMicro \div 100)) \div 100      \* x^2 in 1e-6
        x4 == ((x2 \div 100) * (x2 \div 100)) \div 100              \* x^4 in 1e-6
    IN  (1000000 - x2 \div 2 + x4 \div 24) \div 1000

\* a pair of antipodes: lat2 = -lat1 and the longitudes half a turn apart
Antipodal(lat1, lon1, lat2, lon2) ==
    /\ lat2 = 0 - lat1
    /\ (lon2 - lon1 = HalfTurnSteps \/ lon1 - lon2 = HalfTurnSteps)

\* fl(a) - 1 in ulps, a = sin(dlat/2)**2 + cos(lat1)*cos(lat2)*sin(dlon/2)**2
\* evaluated in IEEE doubles at a pair of antipodes (where a = 1 exactly in
\* the reals): 1.0000000000000002 at latitude +-87.5, 1.0 at 0 and +-50.
AntipodalExcessUlp(lat) ==
    IF lat = PolarLat \/ lat = 0 - PolarLat THEN 1 ELSE 0

\* math.sqrt(1 - a) raises ValueError (math domain error) when fl(a) > 1
HaversineRaises(lat1, lon1, lat2, lon2) ==
    Antipodal(lat1, lon1, lat2, lon2) /\ AntipodalExcessUlp(lat1) > 0

\* faulty variant: the cosine of the start latitude stands for both
HaversineFromStart(lat1, lon1, lat2, lon2) ==
    LET dlat == lat2 - lat1
        dlon == lon2 - lon1
        cc == (Cos1000(lat1) * Cos1000(lat1)) \div 1000
        a1000 == 1000 * dlat * dlat + cc * dlon * dlon
    IN  IF Antipodal(lat1, lon1, lat2, lon2)
        THEN (EarthRadiusKm * PiE5) \div 100
        ELSE (MetresPerStep * ISqrt(a1000 * 1000)) \div 1000

\* R * c in metres.  Antipodes: c = 2*atan2(1, 0) = pi.  Otherwise dlat, dlon
\* are at most a few steps, sin(d/2) = d/2 and 2*atan2(sqrt(a), sqrt(1-a)) =
\* 2*sqrt(a) to within 1e-5, so
\* c = radians(step) * sqrt(dlat^2 + cos(lat1)*cos(lat2)*dlon^2).
HaversineM(lat1, lon1, lat2, lon2) ==
    LET dlat == lat2 - lat1
        dlon == lon2 - lon1
        cc == (Cos1000(lat1) * Cos1000(lat2)) \div 1000
        a1000 == 1000 * dlat * dlat + cc * dlon * dlon
    IN  IF Antipodal(lat1, lon1, lat2, lon2)
        THEN (EarthRadiusKm * PiE5) \div 100
        ELSE (MetresPerStep * ISqrt(a1000 * 1000)) \div 1000

\* MarketplaceService._haversine_distance: [exc, km] with km in metres
HaversineDistance(lat1, lon1, lat2, lon2) ==
    IF HaversineRaises(lat1, lon1, lat2, lon2)
    THEN [exc |-> TRUE, m |-> 0]
    ELSE [exc |-> FALSE, m |-> HaversineM(lat1, lon1, lat2, lon2)]

NoRoute == [distance_m |-> 0, duration_s |-> 0, distance_km |-> 0, duration_min |-> 0]

\* lines 207-218: the dict returned for a distance of m metres (30 km/h)
FallbackEstimate(m) ==
    [exc |-> FALSE, source |-> "fallback",
     val |-> [distance_m |-> m,
              duration_s |-> (m * 12) \div 100,
              distance_km |-> RoundDiv(m, 10),
              duration_min |-> RoundDiv(m, 50)]]

\* OSMService._haversine_route: the dict it returns, or the error it raises
HaversineRoute(lat1, lon1, lat2, lon2) ==
    IF HaversineRaises(lat1, lon1, lat2, lon2)
    THEN [exc |-> TRUE, source |-> "fallback", val |-> NoRoute]
    ELSE FallbackEstimate(HaversineM(lat1, lon1, lat2, lon2))

(***************************************************************************)
(* OSMService.get_route                                                    *)
(*                                                                         *)
(* A response of the routing service:                                      *)
(*   net     "ok" | "connect_error" | "timeout"   (httpx raises on the two)*)
(*   status  the HTTP status                                               *)
(*   body    "empty" | "invalid" (not JSON) | "array" (JSON, not an object)*)
(*           | "object"                                                    *)
(*   code    the object's "code"                                           *)
(*   routes  optional key holding a list of routes                         *)
(* A route: distance, duration optional keys; malformed = not an object or *)
(* a non-numeric distance.                                                 *)
(***************************************************************************)
Raise == [exc |-> TRUE, source |-> "none", val |-> NoRoute]

\* the try block, lines 152-183
GetRouteTry(resp, start_lon, start_lat, end_lon, end_lat) ==
    IF resp.net # "ok" THEN Raise                       \* client.get raises
    ELSE IF resp.status < 200 \/ resp.status > 299 THEN Raise  \* raise_for_status
    ELSE IF resp.body = "empty"
    THEN HaversineRoute(start_lat, start_lon, end_lat, end_lon)
    ELSE IF resp.body = "invalid"                       \* response.json() raises
    THEN HaversineRoute(start_lat, start_lon, end_lat, end_lon)
    ELSE IF resp.body = "array" THEN Raise              \* data.get: AttributeError
    ELSE IF resp.code = "Ok" /\ Get(resp.routes, <<>>) # <<>>
    THEN LET route == resp.routes[1][1]
         IN  IF route.malformed THEN Raise
             ELSE [exc |-> FALSE, source |-> "osrm",
                   val |-> [distance_m |-> Get(route.distance, 0),
                            duration_s |-> Get(route.duration, 0),
                            distance_km |-> RoundDiv(Get(route.distance, 0), 10),
                            duration_min |-> RoundDiv(Get(route.duration, 0), 6)]]
    ELSE HaversineRoute(start_lat, start_lon, end_lat, end_lon)

\* the except handler, lines 185-188, after the try block ended as t
RouteOrFallback(t, start_lon, start_lat, end_lon, end_lat) ==
    IF t.exc THEN HaversineRoute(start_lat, start_lon, end_lat, end_lon) ELSE t

\* get_route: the try block and its except handler, lines 151-188
GetRoute(resp, start_lon, start_lat, end_lon, end_lat) ==
    RouteOrFallback(GetRouteTry(resp, start_lon, start_lat, end_lon, end_lat),
                    start_lon, start_lat, end_lon, end_lat)

(***************************************************************************)
(* A recycler document:                                                    *)
(*   id, is_active                                                         *)
(*   location              optional; its coordinates optional, [lon, lat]  *)
(*   materials_accepted    optional list; an element is a material code    *)
(*                         (isStr) or a record {material, accepts,         *)
(*                         rate_per_kg, min_weight_kg, max_weight_kg}      *)
(*   current_capacity_kg, max_capacity_kg, price_multiplier,               *)
(*   road_accessibility_score   optional numbers                           *)
(*   catchment_wards       optional list of wards                          *)
(***************************************************************************)
MATERIAL_RATES ==
    ("PET" :> 1200) @@ ("HDPE" :> 1000) @@ ("Paper" :> 500) @@ ("Glass" :> 400)
    @@ ("Metal" :> 1500) @@ ("E-Waste" :> 2000) @@ ("Cardboard" :> 600)
    @@ ("Aluminum" :> 1800) @@ ("Steel" :> 800) @@ ("Plastic" :> 700)

\* settings.MATERIAL_RATES.get(material, 5.0)
BaseRate(material) ==
    IF material \in DOMAIN MATERIAL_RATES THEN MATERIAL_RATES[material] ELSE 500

\* the routing service's answer to one request of rank_recyclers, by its
\* state: "down" (no connection), "direct" (the road follows the great
\* circle, 30 km/h), "detour" (the road is half as long again)
OsrmRoad(road) ==
    [net |-> "ok", status |-> 200, body |-> "object", code |-> "Ok",
     routes |-> << << [distance |-> <<road>>,
                        duration |-> <<(road * 12) \div 100>>,
                        malformed |-> FALSE] >> >>]

OsrmAnswer(osrm, start_lon, start_lat, end_lon, end_lat) ==
    IF osrm = "down"
    THEN [net |-> "connect_error", status |-> 200, body |-> "empty",
          code |-> "", routes |-> <<>>]
    ELSE IF osrm = "detour"
    THEN OsrmRoad((HaversineM(start_lat, start_lon, end_lat, end_lon) * 3) \div 2)
    ELSE OsrmRoad(HaversineM(start_lat, start_lon, end_lat, end_lon))

\* rec_lon, rec_lat = recycler["location"]["coordinates"]
Unpack(rec) ==
    IF rec.location = <<>> THEN [exc |-> TRUE, lon |-> 0, lat |-> 0]       \* KeyError
    ELSE IF rec.location[1].coordinates = <<>>
    THEN [exc |-> TRUE, lon |-> 0, lat |-> 0]                              \* KeyError
    ELSE LET c == rec.location[1].coordinates[1]
         IN  IF Len(c) # 2 THEN [exc |-> TRUE, lon |-> 0, lat |-> 0]       \* ValueError
             ELSE [exc |-> FALSE, lon |-> c[1], lat |-> c[2]]

RECURSIVE ScanMaterials(_, _, _, _)
\* the loop of lines 160-172 from element i on: [exc, score, rate]
ScanMaterials(mats, i, material, weight_kg) ==
    IF i > Len(mats) THEN [exc |-> FALSE, score |-> 0, rate |-> 0]
    ELSE LET mat == mats[i]
         IN  IF mat.isStr THEN [exc |-> TRUE, score |-> 0, rate |-> 0]  \* str has no .get
             ELSE IF mat.material = material /\ Get(mat.accepts, FALSE)
             THEN [exc |-> FALSE,
                   score |-> IF weight_kg < Get(mat.min_weight_kg, 0)
                                \/ weight_kg > Get(mat.max_weight_kg, 1000)
                             THEN 5000 ELSE 10000,
                   rate |-> Get(mat.rate_per_kg, 0)]
             ELSE ScanMaterials(mats, i + 1, material, weight_kg)

\* faulty variant: a weight outside the record's bounds rejects the candidate
MaterialAcceptInsideOnly(rec, material, weight_kg) ==
    LET mats == Get(rec.materials_accepted, <<>>)
    IN  IF mats = <<>> THEN [exc |-> FALSE, score |-> 0, rate |-> 0]
        ELSE IF mats[1].isStr
        THEN IF \E k \in 1..Len(mats) : mats[k].isStr /\ mats[k].code = material
             THEN [exc |-> FALSE, score |-> 10000,
                   rate |-> (BaseRate(material) * Get(rec.price_multiplier, 100)) \div 100]
             ELSE [exc |-> FALSE, score |-> 0, rate |-> 0]
        ELSE IF ScanMaterials(mats, 1, material, weight_kg).score = 5000
        THEN [exc |-> FALSE, score |-> 0, rate |-> 0]
        ELSE ScanMaterials(mats, 1, material, weight_kg)

\* lines 141-172: [exc, score (material_accept_score), rate (material_rate)]
MaterialAccept(rec, material, weight_kg) ==
    LET mats == Get(rec.materials_accepted, <<>>)
    IN  IF mats = <<>> THEN [exc |-> FALSE, score |-> 0, rate |-> 0]
        ELSE IF mats[1].isStr
        THEN IF \E k \in 1..Len(mats) : mats[k].isStr /\ mats[k].code = material
             THEN [exc |-> FALSE, score |-> 10000,
                   rate |-> (BaseRate(material) * Get(rec.price_multiplier, 100)) \div 100]
             ELSE [exc |-> FALSE, score |-> 0, rate |-> 0]
        ELSE ScanMaterials(mats, 1, material, weight_kg)

\* faulty variant: the clamp max(0, ...) is missing
CapacityScoreUnclamped(rec) ==
    LET current_capacity == Get(rec.current_capacity_kg, 0)
        max_capacity == Get(rec.max_capacity_kg, 1000)
    IN  IF max_capacity > 0
        THEN 10000 - (current_capacity * 10000) \div max_capacity ELSE 10000

\* lines 178-182
CapacityScore(rec) ==
    LET current_capacity == Get(rec.current_capacity_kg, 0)
        max_capacity == Get(rec.max_capacity_kg, 1000)
        utilization == IF max_capacity > 0
                       THEN (current_capacity * 10000) \div max_capacity ELSE 0
    IN  Max(0, 10000 - utilization)

\* faulty variant: the cap min(1.0, ...) is missing
PriceScoreUncapped(material, material_rate) ==
    IF BaseRate(material) > 0 THEN (material_rate * 10000) \div BaseRate(material)
    ELSE 10000

\* lines 184-188
PriceScore(material, material_rate) ==
    LET base_rate == BaseRate(material)
        price_ratio == IF base_rate > 0 THEN (material_rate * 10000) \div base_rate
                       ELSE 10000
    IN  Min(10000, price_ratio)

\* faulty variant: the clamp max(0, ...) is missing
DistanceScoreUnclamped(distance_km) == 10000 - 5 * distance_km

\* line 139
DistanceScore(distance_km) == Max(0, 10000 - 5 * distance_km)

\* line 195
CatchmentMatch(rec, ward) ==
    LET catchment_wards == Get(rec.catchment_wards, <<>>)
    IN  IF catchment_wards = <<>>
           \/ (\E k \in 1..Len(catchment_wards) : catchment_wards[k] = ward)
        THEN 10000 ELSE 5000

\* line 198
W1 == 30

W2 == 25

W3 == 15

W4 == 10

W5 == 10

W6 == 10

\* faulty variant: the weights of distance and material are swapped
TotalScoreSwapped(d, m, c, p, r, z) ==
    W2 * d + W1 * m + W3 * c + W4 * p + W5 * r + W6 * z

\* lines 200-207
TotalScore(d, m, c, p, r, z) == W1 * d + W2 * m + W3 * c + W4 * p + W5 * r + W6 * z

\* faulty variant: the zero-scored candidate is kept
SkipsNever(material_accept_score) == FALSE

\* line 175: if material_accept_score == 0: return None
SkipsCandidate(material_accept_score) == material_accept_score = 0

NoEntry ==
    [recycler_id |-> 0, distance_km |-> 0, estimated_travel_time_min |-> 0,
     distance_score |-> 0, material_accept_score |-> 0, capacity_score |-> 0,
     price_score |-> 0, road_accessibility_score |-> 0,
     catchment_zone_match |-> 0, total_score |-> 0]

Raised == [status |-> "raised", entry |-> NoEntry]

\* lines 209-224: the dict returned for the six sub-scores
ScoreEntry(rec, route, d, m, c, p, r, z) ==
    [recycler_id |-> rec.id,
     distance_km |-> route.val.distance_km,
     estimated_travel_time_min |-> route.val.duration_min,
     distance_score |-> d,
     material_accept_score |-> m,
     capacity_score |-> c,
     price_score |-> p,
     road_accessibility_score |-> r,
     catchment_zone_match |-> z,
     total_score |-> TotalScore(d, m, c, p, r, z)]

\* lines 139-224, with the route of line 134 and the material scan of
\* lines 141-172 (ma) done
ScoreRouted(rec, req, route, ma) ==
    IF route.exc THEN Raised
    ELSE IF ma.exc THEN Raised
    ELSE IF SkipsCandidate(ma.score) THEN [status |-> "none", entry |-> NoEntry]
    ELSE [status |-> "scored",
          entry |-> ScoreEntry(rec, route,
                               DistanceScore(route.val.distance_km), ma.score,
                               CapacityScore(rec), PriceScore(req.material, ma.rate),
                               Get(rec.road_accessibility_score, 7000),
                               CatchmentMatch(rec, req.ward))]

\* lines 134-224, with the coordinates of line 131 (u) unpacked
ScoreLocated(rec, req, u) ==
    IF u.exc THEN Raised
    ELSE ScoreRouted(rec, req,
             GetRoute(OsrmAnswer(req.osrm, req.user_lon, req.user_lat, u.lon, u.lat),
                      req.user_lon, req.user_lat, u.lon, u.lat),
             MaterialAccept(rec, req.material, req.weight_kg))

\* the try block of _score_recycler, lines 131-224:
\* status "scored" (the dict), "none" (return None, line 176) or "raised"
ScoreRecyclerTry(rec, req) == ScoreLocated(rec, req, Unpack(rec))

\* the except handler of _score_recycler, lines 226-228
NoneIfRaised(t) ==
    IF t.status = "raised" THEN [status |-> "skipped", entry |-> NoEntry] ELSE t

\* _score_recycler: the try block and its except handler
ScoreRecycler(rec, req) == NoneIfRaised(ScoreRecyclerTry(rec, req))

(***************************************************************************)
(* MarketplaceService.rank_recyclers                                       *)
(***************************************************************************)
\* faulty variant: x goes before its equals
InsertDescBeforeEquals(sorted, x) ==
    LET k == Cardinality({j \in 1..Len(sorted) : sorted[j].key > x.key})
    IN  SubSeq(sorted, 1, k) \o <<x>> \o SubSeq(sorted, k + 1, Len(sorted))

\* list.sort is stable: x goes after every element that does not sort
\* strictly after it.  Descending (reverse=True) keeps the order of equals.
InsertDesc(sorted, x) ==
    LET k == Cardinality({j \in 1..Len(sorted) : sorted[j].key >= x.key})
    IN  SubSeq(sorted, 1, k) \o <<x>> \o SubSeq(sorted, k + 1, Len(sorted))

RECURSIVE SortDescFrom(_, _, _)
SortDescFrom(items, i, sorted) ==
    IF i > Len(items) THEN sorted
    ELSE SortDescFrom(items, i + 1, InsertDesc(sorted, items[i]))

Items(sorted) == [j \in 1..Len(sorted) |-> sorted[j].item]

KeyByTotalScore(entries, sign) ==
    [j \in 1..Len(entries) |->
        [key |-> sign * entries[j].total_score, item |-> entries[j]]]

\* faulty variant: reverse=True is missing
SortByTotalScoreAscending(entries) ==
    Items(SortDescFrom(KeyByTotalScore(entries, 0 - 1), 1, <<>>))

\* scored_recyclers.sort(key=lambda x: x["total_score"], reverse=True), line 106
SortByTotalScore(entries) ==
    Items(SortDescFrom(KeyByTotalScore(entries, 1), 1, <<>>))

\* to_list(length=50), line 59; to_list(length=100), line 67; [:10], line 110
NearLimit == 50

ScanLimit == 100

TopN == 10

\* $maxDistance, line 54, and the fallback's threshold, line 80, in metres
MaxDistanceM == 20000

IsActive(rec) == rec.is_active

\* $maxDistance of the $near query for a stored point u
WithinMaxDistance(u, user_lat, user_lon) ==
    /\ ~u.exc
    /\ ~HaversineDistance(user_lat, user_lon, u.lat, u.lon).exc
    /\ HaversineM(user_lat, user_lon, u.lat, u.lon) <= MaxDistanceM

KeyByNearness(hits, user_lat, user_lon) ==
    [j \in 1..Len(hits) |->
        [key |-> 0 - HaversineM(user_lat, user_lon,
                                Unpack(hits[j]).lat, Unpack(hits[j]).lon),
         item |-> hits[j]]]

\* the $near query of lines 46-59, as the store answers it: the active
\* documents whose location is a point within $maxDistance, nearest first
NearQuery(store, user_lat, user_lon) ==
    LET hit(rec) == IsActive(rec) /\ WithinMaxDistance(Unpack(rec), user_lat, user_lon)
    IN  Take(Items(SortDescFrom(KeyByNearness(SelectSeq(store, hit), user_lat, user_lon),
                                1, <<>>)), NearLimit)

\* lines 77-81: kept, with rec appended when it is at most 20 km away
KeepIfNear(kept, rec, d) == IF d.m <= MaxDistanceM THEN Append(kept, rec) ELSE kept

RECURSIVE FilterByDistance(_, _, _, _, _)
\* lines 75-81 for document i, its coordinates unpacked as u
FilterLocated(all_recyclers, i, user_lat, user_lon, kept, u) ==
    IF u.exc \/ HaversineDistance(user_lat, user_lon, u.lat, u.lon).exc
    THEN [exc |-> TRUE, list |-> <<>>]
    ELSE FilterByDistance(all_recyclers, i + 1, user_lat, user_lon,
             KeepIfNear(kept, all_recyclers[i],
                        HaversineDistance(user_lat, user_lon, u.lat, u.lon)))

\* the loop of lines 72-81 from document i on: [exc, list]
FilterByDistance(all_recyclers, i, user_lat, user_lon, kept) ==
    IF i > Len(all_recyclers) THEN [exc |-> FALSE, list |-> kept]
    ELSE IF all_recyclers[i].location = <<>>
            \/ all_recyclers[i].location[1].coordinates = <<>>
    THEN FilterByDistance(all_recyclers, i + 1, user_lat, user_lon, kept)
    ELSE FilterLocated(all_recyclers, i, user_lat, user_lon, kept,
                       Unpack(all_recyclers[i]))

\* lines 66-81: the full scan and the in-process distance filter
FallbackScan(store, user_lat, user_lon) ==
    FilterByDistance(Take(SelectSeq(store, IsActive), ScanLimit), 1,
                     user_lat, user_lon, <<>>)

\* lines 89-103
ScoreAll(cands, req) == [j \in 1..Len(cands) |-> ScoreRecycler(cands[j], req)]

Entries(kept) == [j \in 1..Len(kept) |-> kept[j].entry]

Scored(outcomes) ==
    LET ok(o) == o.status = "scored"
    IN  Entries(SelectSeq(outcomes, ok))

\* the exception that ends the try block
Abort(path) ==
    [exc |-> TRUE, path |-> path, cands |-> <<>>,
     outcomes |-> <<>>, sorted |-> <<>>, result |-> <<>>]

\* lines 110-114: the first ten of the sorted list
RankSorted(path, cands, outcomes, sorted) ==
    [exc |-> FALSE, path |-> path, cands |-> cands,
     outcomes |-> outcomes, sorted |-> sorted, result |-> Take(sorted, TopN)]

\* lines 105-114
RankScored(path, cands, outcomes) ==
    RankSorted(path, cands, outcomes, SortByTotalScore(Scored(outcomes)))

\* lines 85-114, with the candidates found
RankFrom(path, cands, req) ==
    IF cands = <<>>
    THEN [exc |-> FALSE, path |-> path, cands |-> <<>>,
          outcomes |-> <<>>, sorted |-> <<>>, result |-> <<>>]
    ELSE RankScored(path, cands, ScoreAll(cands, req))

\* lines 83-114, after the fallback scan ended as fb
RankFallback(fb, req) ==
    IF fb.exc THEN Abort("fallback") ELSE RankFrom("fallback", fb.list, req)

\* the try block of rank_recyclers, lines 38-114.  req.store is what the
\* store does during the call: "ok", "near_error" (the $near query raises),
\* "down" (every query raises).  Without the geospatial index $near raises.
RankTry(store, hasIndex, req) ==
    IF req.store = "down" THEN Abort("fallback")
    ELSE IF req.store # "ok" \/ ~hasIndex
    THEN RankFallback(FallbackScan(store, req.user_lat, req.user_lon), req)
    ELSE RankFrom("primary", NearQuery(store, req.user_lat, req.user_lon), req)

\* faulty variant: the handler re-raises
RaiseAgain(t) ==
    [done |-> TRUE, raised |-> t.exc, aborted |-> t.exc, path |-> t.path,
     cands |-> t.cands, outcomes |-> t.outcomes, sorted |-> t.sorted,
     result |-> IF t.exc THEN <<>> ELSE t.result]

\* the except handler of rank_recyclers, lines 116-118, after the try block
\* ended as t.  raised: an exception leaves rank_recyclers; aborted: the
\* handler ran.
EmptyIfRaised(t) ==
    [done |-> TRUE, raised |-> FALSE, aborted |-> t.exc, path |-> t.path,
     cands |-> t.cands, outcomes |-> t.outcomes, sorted |-> t.sorted,
     result |-> IF t.exc THEN <<>> ELSE t.result]

\* rank_recyclers: the try block and its except handler
\* faulty variant: a provider listed first in the list of the call before is
\* remembered and left out
RankRecyclersSkippingSeen(store, hasIndex, req) ==
    [EmptyIfRaised(RankTry(store, hasIndex, req)) EXCEPT
        !.result = IF rankOut.done /\ @ # <<>> THEN Tail(@) ELSE @]

RankRecyclers(store, hasIndex, req) == EmptyIfRaised(RankTry(store, hasIndex, req))

(***************************************************************************)
(* Inputs of rank_recyclers                                                *)
(***************************************************************************)
Str(c) ==
    [isStr |-> TRUE, code |-> c, material |-> "", accepts |-> <<>>,
     rate_per_kg |-> <<>>, min_weight_kg |-> <<>>, max_weight_kg |-> <<>>]

MatRec(m, acc, rate, minw, maxw) ==
    [isStr |-> FALSE, code |-> "", material |-> m, accepts |-> acc,
     rate_per_kg |-> rate, min_weight_kg |-> minw, max_weight_kg |-> maxw]

Point(lon, lat) == << [coordinates |-> << <<lon, lat>> >>] >>

Doc(active, loc, mats, cur, max, mult, road, wards) ==
    [id |-> 0, is_active |-> active, location |-> loc, materials_accepted |-> mats,
     current_capacity_kg |-> cur, max_capacity_kg |-> max,
     price_multiplier |-> mult, road_accessibility_score |-> road,
     catchment_wards |-> wards]

\* documents the directory holds
Catalog ==
    {   \* seed shape: flat codes, defaults elsewhere, 5 km away
        Doc(TRUE, Point(1552, 259), << <<Str("PET"), Str("Glass")>> >>,
            <<250>>, <<1000>>, <<>>, <<>>, <<>>),
        \* structured shape with weight bounds, over capacity, 17 km away
        Doc(TRUE, Point(1551, 262),
            << <<MatRec("Glass", <<TRUE>>, <<200>>, <<>>, <<>>),
                 MatRec("PET", <<TRUE>>, <<600>>, <<5>>, <<500>>)>> >>,
            <<1200>>, <<1000>>, <<>>, <<9000>>, << <<"W1">> >>),
        \* structured shape: declines Glass, generous PET rate, max capacity 0,
        \* 22 km away
        Doc(TRUE, Point(1551, 263),
            << <<MatRec("Glass", <<FALSE>>, <<400>>, <<>>, <<>>),
                 MatRec("PET", <<TRUE>>, <<1500>>, <<>>, <<>>)>> >>,
            <<0>>, <<0>>, <<>>, <<10000>>, << <<"W2">> >>),
        \* at the requester's door, flat shape, price multiplier 1.5
        Doc(TRUE, Point(1551, 259), << <<Str("PET")>> >>,
            <<>>, <<>>, <<150>>, <<5000>>, <<>>),
        \* inactive
        Doc(FALSE, Point(1552, 259), << <<Str("PET")>> >>,
            <<>>, <<>>, <<>>, <<>>, <<>>),
        \* no location
        Doc(TRUE, <<>>, << <<Str("PET")>> >>, <<>>, <<>>, <<>>, <<>>, <<>>),
        \* a code among the records: scoring raises once the loop reaches it
        Doc(TRUE, Point(1552, 259),
            << <<MatRec("Glass", <<TRUE>>, <<400>>, <<>>, <<>>), Str("PET")>> >>,
            <<>>, <<>>, <<>>, <<>>, <<>>),
        \* no list of materials
        Doc(TRUE, Point(1552, 259), <<>>, <<>>, <<>>, <<>>, <<>>, <<>>)
    }

\* documents only a collection without a 2dsphere index can hold
Unindexable ==
    {   \* coordinates [lon]
        [Doc(TRUE, <<>>, << <<Str("PET")>> >>, <<>>, <<>>, <<>>, <<>>, <<>>)
            EXCEPT !.location = << [coordinates |-> << <<1551>> >>] >>]
    }

(***************************************************************************)
(* Inputs of get_route                                                     *)
(***************************************************************************)
\* a city block around 12.95 N 77.55 E, as <<lon, lat>>
CityPoints == {<<1551, 259>>, <<1552, 259>>, <<1551, 262>>, <<1553, 260>>}

\* pairs of antipodes, as <<lon, lat>>
AntipodePairs ==
    {<<<<0, lat>>, <<HalfTurnSteps, 0 - lat>>>> : lat \in {0, 1000, PolarLat, 0 - PolarLat}}

RoutePairs ==
    (CityPoints \X CityPoints)
        \cup AntipodePairs \cup {<<pr[2], pr[1]>> : pr \in AntipodePairs}

OsrmRoutes ==
    {[distance |-> d, duration |-> t, malformed |-> FALSE] :
        d \in {<<>>, <<0>>, <<2005>>, <<25000>>}, t \in {<<>>, <<95>>}}
    \cup {[distance |-> <<>>, duration |-> <<>>, malformed |-> TRUE]}

OsrmObjects ==
    {[net |-> "ok", status |-> 200, body |-> "object", code |-> c, routes |-> r] :
        c \in {"Ok", "NoRoute"},
        r \in {<<>>, << <<>> >>} \cup {<< <<x>> >> : x \in OsrmRoutes}}

OsrmFailures ==
    {[net |-> n, status |-> 200, body |-> "empty", code |-> "", routes |-> <<>>] :
        n \in {"connect_error", "timeout"}}
    \cup {[net |-> "ok", status |-> st, body |-> "object", code |-> "Ok",
           routes |-> << << [distance |-> <<2005>>, duration |-> <<95>>,
                              malformed |-> FALSE] >> >>] : st \in {404, 500}}
    \cup {[net |-> "ok", status |-> 200, body |-> b, code |-> "", routes |-> <<>>] :
        b \in {"empty", "invalid", "array"}}

OsrmResponses == OsrmObjects \cup OsrmFailures

NoCall == [done |-> FALSE]

RouteInit ==
    /\ routeCall = NoCall
    /\ routeOut = NoCall

\* one call of get_route
GetRouteCall ==
    \E pr \in RoutePairs, resp \in OsrmResponses :
        /\ routeCall' = [done |-> TRUE, resp |-> resp,
                         start_lon |-> pr[1][1], start_lat |-> pr[1][2],
                         end_lon |-> pr[2][1], end_lat |-> pr[2][2]]
        /\ routeOut' = GetRoute(resp, pr[1][1], pr[1][2], pr[2][1], pr[2][2])
        /\ UNCHANGED <<rankVars, ragVars, scanVars, tokenVars>>

(***************************************************************************)
(* The fusion step of scan_image                                           *)
(*                                                                         *)
(* A vector is a function on 1..EmbDim with components in 1/100; weights   *)
(* are in 1/100 and the components of a fused vector in 1/10000.  An       *)
(* optional vector is <<>> (None) or <<v>>.                                *)
(***************************************************************************)
EmbDim == 2

FUSION_WEIGHT_IMAGE == 30

FUSION_WEIGHT_TEXT == 25

FUSION_WEIGHT_LOCATION == 15

FUSION_WEIGHT_USER == 20

FUSION_WEIGHT_TIME == 10

ZeroVector == [i \in 1..EmbDim |-> 0]

\* what an input adds before its weight: nothing when it is absent
Contribution(v) == IF v = <<>> THEN ZeroVector ELSE v[1]

\* fuse(v_img, v_text, v_loc, v_user, v_time): the weighted combination of
\* the inputs that are present
Fuse(v_img, v_text, v_loc, v_user, v_time) ==
    [exc |-> FALSE,
     val |-> [i \in 1..EmbDim |->
                FUSION_WEIGHT_IMAGE * Contribution(v_img)[i]
                + FUSION_WEIGHT_TEXT * Contribution(v_text)[i]
                + FUSION_WEIGHT_LOCATION * Contribution(v_loc)[i]
                + FUSION_WEIGHT_USER * Contribution(v_user)[i]
                + FUSION_WEIGHT_TIME * Contribution(v_time)[i]]]

\* line 55: query_en = query_text or ""
QueryOrEmpty(query_text) == IF query_text = <<>> THEN "" ELSE query_text[1]

\* lines 57-59: a Hindi query is replaced by what the translation returns
Translations(language, query_en) ==
    IF language = "hi" /\ query_en # "" THEN {"plastic bottle", ""} ELSE {query_en}

\* vision_service.encode_text: the embedding of a text
EncodeText(text) ==
    [i \in 1..EmbDim |-> IF i = 1 THEN 60 ELSE IF text = "batteries" THEN 80 ELSE 40]

\* faulty variant: the query is encoded whether or not it is empty
TextEncodedAlways(query_en) == <<EncodeText(query_en)>>

\* line 113: v_text = encode_text(query_en) if query_en else None
TextEmbedding(query_en) == IF query_en # "" THEN <<EncodeText(query_en)>> ELSE <<>>

\* lines 55-121, the steps that produce the arguments of fuse and call it
ScanFusion(query_en, v_img, v_loc, v_user, v_time) ==
    Fuse(<<v_img>>, TextEmbedding(query_en), <<v_loc>>, <<v_user>>, <<v_time>>)

Vectors == [1..EmbDim -> {0, 100}]

\* the feature blocks, brought to the length of the embeddings
LocationFeatures == {[i \in 1..EmbDim |-> IF i = 1 THEN 70 ELSE 0], ZeroVector}

UserFeatures == {[i \in 1..EmbDim |-> IF i = 1 THEN 5 ELSE 80], ZeroVector}

TimeFeatures == {[i \in 1..EmbDim |-> IF i = 1 THEN 50 ELSE 100],
                 [i \in 1..EmbDim |-> IF i = 1 THEN 90 ELSE 0]}

QueryTexts == {<<>>, <<"">>, <<"plastic bottle">>, <<"batteries">>}

ScanIdle ==
    /\ scanCall = NoCall
    /\ scanOut = NoCall

TokenIdle ==
    /\ tokens = <<>>
    /\ wallets = <<>>
    /\ redemptions = <<>>
    /\ redeemCalls = <<>>

\* one scan_image request, from its form fields to the fused vector
ScanImageCall ==
    /\ ~scanCall.done
    /\ \E query_text \in QueryTexts, language \in {"en", "hi"}, v_img \in Vectors,
          v_loc \in LocationFeatures, v_user \in UserFeatures, v_time \in TimeFeatures :
        \E query_en \in Translations(language, QueryOrEmpty(query_text)) :
            /\ scanCall' = [done |-> TRUE, query_text |-> query_text,
                            language |-> language, query_en |-> query_en,
                            v_img |-> v_img, v_loc |-> v_loc, v_user |-> v_user,
                            v_time |-> v_time]
            /\ scanOut' = ScanFusion(query_en, v_img, v_loc, v_user, v_time)
    /\ UNCHANGED <<rankVars, routeVars, ragVars, tokenVars>>

ScanReturn ==
    /\ scanCall.done
    /\ scanCall' = NoCall
    /\ scanOut' = NoCall
    /\ UNCHANGED <<rankVars, routeVars, ragVars, tokenVars>>

(***************************************************************************)
(* The ranking service as a state machine                                  *)
(***************************************************************************)
\* at most MaxKinds different documents, each held MaxCopies times or once
MaxKinds == 2

MaxCopies == 6

SeqsUpTo(S, n) == UNION {[1..k -> S] : k \in 0..n}

\* copies rounds of the documents of base, numbered in insertion order
Collection(base, copies) ==
    [j \in 1..(Len(base) * copies) |->
        [base[((j - 1) % Len(base)) + 1] EXCEPT !.id = j]]

UserPoints == {<<1551, 259>>, <<1553, 260>>}

RankRequests ==
    [user : UserPoints,
     material : {"PET", "Glass"}, weight_kg : {2, 600},
     ward : {"W1", ""}, store : {"ok", "near_error", "down"},
     osrm : {"down", "detour"}]

\* A collection with the index holds no document the index rejects.  One
\* without it that holds only indexable documents answers as an indexed one
\* whose $near query raises, and is left to that case.
RankInitWith(copying) ==
    /\ \E base \in SeqsUpTo(Catalog \cup Unindexable, MaxKinds), copies \in copying :
            /\ recyclers = Collection(base, copies)
            /\ geoIndex = (\A k \in 1..Len(base) : base[k] \notin Unindexable)
    /\ rankCall = NoCall
    /\ rankOut = NoCall
    /\ rankPrev = NoCall

RankInit == RankInitWith({1, MaxCopies})

\* one call of rank_recyclers, from the request to the returned list
RankRecyclersCall ==
    /\ ~rankCall.done
    /\ \E r \in RankRequests :
        LET req == [user_lon |-> r.user[1], user_lat |-> r.user[2],
                    material |-> r.material, weight_kg |-> r.weight_kg,
                    ward |-> r.ward, store |-> r.store, osrm |-> r.osrm]
        IN  /\ rankCall' = [done |-> TRUE, req |-> req]
            /\ rankOut' = RankRecyclers(recyclers, geoIndex, req)
            /\ UNCHANGED <<recyclers, geoIndex, rankPrev, routeVars, ragVars, scanVars, tokenVars>>

\* the caller has consumed the list: the service is ready for the next request
RankReturn ==
    /\ rankCall.done
    /\ rankCall' = NoCall
    /\ rankOut' = NoCall
    /\ rankPrev' = NoCall
    /\ UNCHANGED <<recyclers, geoIndex, routeVars, ragVars, scanVars, tokenVars>>

\* the caller keeps the list it got and makes the same request again, the
\* collection and the answers of the routing service being what they were
RankRepeat ==
    /\ rankCall.done
    /\ ~rankPrev.done
    /\ rankPrev' = [done |-> TRUE, req |-> rankCall.req, result |-> rankOut.result]
    /\ rankOut' = RankRecyclers(recyclers, geoIndex, rankCall.req)
    /\ UNCHANGED <<recyclers, geoIndex, rankCall, routeVars, ragVars, scanVars, tokenVars>>

RagIdle ==
    /\ ragPersonal = <<>>
    /\ ragGlobal = <<>>
    /\ idxPersonal = <<>>
    /\ idxGlobal = <<>>
    /\ ragInit = FALSE
    /\ ragTasks = NoCall
    /\ ragOut = NoCall

RankIdle ==
    /\ recyclers = <<>>
    /\ geoIndex = TRUE
    /\ rankCall = NoCall
    /\ rankOut = NoCall
    /\ rankPrev = NoCall

\* the routing adapter alone
InitRoute == RouteInit /\ RankIdle /\ RagIdle /\ ScanIdle /\ TokenIdle

NextRoute == GetRouteCall

SpecRoute == InitRoute /\ [][NextRoute]_vars

\* the ranking service alone
InitRank == RankInit /\ RouteInit /\ RagIdle /\ ScanIdle /\ TokenIdle

NextRank == RankRecyclersCall \/ RankReturn

SpecRank == InitRank /\ [][NextRank]_vars

\* the ranking engine with repeated requests, over collections that hold
\* every provider twice
InitRepeat == RankInitWith({2}) /\ RouteInit /\ RagIdle /\ ScanIdle /\ TokenIdle

NextRepeat == RankRecyclersCall \/ RankRepeat \/ RankReturn

SpecRepeat == InitRepeat /\ [][NextRepeat]_vars

(***************************************************************************)
(* Dual-tier retrieval: app/rag/rag_service.py                             *)
(*                                                                         *)
(* An embedding is a point on a line, a stored one carries its length      *)
(* (dim).  A document id is the position of the document in its            *)
(* collection; a document deleted from the store keeps its position,       *)
(* marked removed, so that no id is assigned twice.  The state of the      *)
(* service and of its two stores and two indices is the record             *)
(* [personal, global, idxP, idxG, init].                                   *)
(***************************************************************************)
AbsDiff(a, b) == IF a >= b THEN a - b ELSE b - a

\* relevance score in [0,1] of a hit, in 1/10000 (the index of
\* app/services/vector_db.py, described by the specification section 4.5)
Similarity(query_embedding, emb) == 10000 - 5000 * AbsDiff(query_embedding, emb)

\* search(query_embedding, top_k): at most top_k (doc_id, score), best first
Search(index, query_embedding, top_k) ==
    LET keyed == [j \in 1..Len(index) |->
                    [key |-> Similarity(query_embedding, index[j].emb),
                     item |-> index[j].id]]
        sorted == SortDescFrom(keyed, 1, <<>>)
    IN  Take([j \in 1..Len(sorted) |->
                [id |-> sorted[j].item, score |-> sorted[j].key]], top_k)

\* insert(ids, embeddings, metadata): the index maps a document id to one
\* embedding, so an id it already holds gets the embedding inserted last
IndexInsert(index, docs) ==
    LET Other(e) == \A j \in 1..Len(docs) : docs[j].id # e.id
    IN  SelectSeq(index, Other)
        \o [j \in 1..Len(docs) |-> [id |-> docs[j].id, emb |-> docs[j].emb]]

\* ObjectId(s) raises InvalidId unless s is a well-formed identifier
Users == {"u1", "u2"}

ValidObjectId(s) == s \in Users

\* the documents a find can return: those still in the collection
IsLive(doc) == ~doc.removed

Live(coll) == SelectSeq(coll, IsLive)

\* lines 57-67 and 87-97: the stored embeddings of length 512
Loadable(doc) == doc.embedding # <<>> /\ doc.embedding[1].dim = 512

IdAndEmbedding(kept) ==
    [j \in 1..Len(kept) |-> [id |-> kept[j].id, emb |-> kept[j].embedding[1].val]]

EmbeddedDocs(coll) == IdAndEmbedding(SelectSeq(Live(coll), Loadable))

\* _load_existing_embeddings, lines 45-110: a find that raises ends the
\* loading where it stands and is not propagated
LoadExistingEmbeddings(st, fail) ==
    IF fail = "global_store" THEN st
    ELSE LET g == [st EXCEPT !.idxG = IndexInsert(@, EmbeddedDocs(st.global))]
         IN  IF fail = "personal_store" THEN g
             ELSE [g EXCEPT !.idxP = IndexInsert(@, EmbeddedDocs(st.personal))]

\* faulty variant: the flag is set and nothing is loaded
InitializeWithoutLoad(st, fail) == [st EXCEPT !.init = TRUE]

\* initialize, lines 26-43
Initialize(st, fail) == [LoadExistingEmbeddings(st, fail) EXCEPT !.init = TRUE]

\* lines 228-229 and 288-289
EnsureInitialized(st, fail) == IF st.init THEN st ELSE Initialize(st, fail)

\* score_map = {doc_id: score for doc_id, score in results}: the last wins
ScoreMap(results, id) ==
    LET js == {j \in 1..Len(results) : results[j].id = id}
    IN  results[CHOOSE j \in js : \A k \in js : k <= j].score

HitIds(results) == {results[j].id : j \in 1..Len(results)}

\* faulty variant: the sort without reverse=True
SortByScoreAscending(output) ==
    LET keyed == [j \in 1..Len(output) |-> [key |-> 0 - output[j].score, item |-> output[j]]]
        sorted == SortDescFrom(keyed, 1, <<>>)
    IN  [j \in 1..Len(sorted) |-> sorted[j].item]

\* lines 267 and 330: output.sort(key = score, reverse=True)
SortByScore(output) ==
    LET keyed == [j \in 1..Len(output) |-> [key |-> output[j].score, item |-> output[j]]]
        sorted == SortDescFrom(keyed, 1, <<>>)
    IN  [j \in 1..Len(sorted) |-> sorted[j].item]

\* filter_query of retrieve_global, lines 239-246
GlobalFilter(doc, doc_ids, category, city) ==
    /\ doc.id \in doc_ids
    /\ (category # <<>> => doc.category = category[1])
    /\ (city # <<>> => (doc.city = city \/ doc.city = <<>>))

\* faulty variant: a hit without a document of the join fails the call
GlobalJoinAllOrNothing(st1, results, top_k, category, city, fail) ==
    LET Match(doc) == GlobalFilter(doc, HitIds(results), category, city)
        docs == Take(SelectSeq(Live(st1.global), Match), top_k * 2)
        output == [j \in 1..Len(docs) |->
                     [id |-> docs[j].id, category |-> docs[j].category,
                      score |-> ScoreMap(results, docs[j].id)]]
    IN  IF fail = "global_store" \/ Len(docs) < Len(results)
        THEN [st |-> st1, hits |-> results, caught |-> TRUE,
              joined |-> <<>>, out |-> <<>>]
        ELSE [st |-> st1, hits |-> results, caught |-> FALSE,
              joined |-> output, out |-> Take(SortByScore(output), top_k)]

\* lines 235-268: the join of the hits (results) against the store
GlobalJoin(st1, results, top_k, category, city, fail) ==
    LET Match(doc) == GlobalFilter(doc, HitIds(results), category, city)
        docs == Take(SelectSeq(Live(st1.global), Match), top_k * 2)
        output == [j \in 1..Len(docs) |->
                     [id |-> docs[j].id, category |-> docs[j].category,
                      score |-> ScoreMap(results, docs[j].id)]]
    IN  IF fail = "global_store"
        THEN [st |-> st1, hits |-> results, caught |-> TRUE,
              joined |-> <<>>, out |-> <<>>]
        ELSE [st |-> st1, hits |-> results, caught |-> FALSE,
              joined |-> output, out |-> Take(SortByScore(output), top_k)]

\* lines 231-268
GlobalSearchJoin(st1, query_embedding, top_k, category, city, fail) ==
    GlobalJoin(st1, Search(st1.idxG, query_embedding, top_k * 2),
               top_k, category, city, fail)

\* retrieve_global, lines 214-272
RetrieveGlobal(st, query_embedding, top_k, category, city, fail) ==
    GlobalSearchJoin(EnsureInitialized(st, fail), query_embedding, top_k,
                     category, city, fail)

\* faulty variant: the join does not look at user_id
PersonalFilterAnyUser(doc, doc_ids, user_id, doc_type) ==
    /\ doc.id \in doc_ids
    /\ (doc_type # <<>> => doc.doc_type = doc_type[1])

\* filter_query of retrieve_personal, lines 299-304
PersonalFilter(doc, doc_ids, user_id, doc_type) ==
    /\ doc.id \in doc_ids
    /\ doc.user_id = user_id
    /\ (doc_type # <<>> => doc.doc_type = doc_type[1])

\* faulty variant: the counter is left as it is
CountNothing(personal, joined) == personal

\* faulty variant: the update replaces the document by its counter, and the
\* owner is lost
CountAndDisown(personal, joined) ==
    [j \in 1..Len(personal) |->
        IF personal[j].id \in joined
        THEN [personal[j] EXCEPT !.relevance_count = @ + 1, !.user_id = ""]
        ELSE personal[j]]

\* lines 323-327: $inc relevance_count of every document of the join
CountRelevant(personal, joined) ==
    [j \in 1..Len(personal) |->
        IF personal[j].id \in joined
        THEN [personal[j] EXCEPT !.relevance_count = @ + 1]
        ELSE personal[j]]

\* lines 295-331: the join of the hits (results) against the store
PersonalJoin(st1, results, user_id, top_k, doc_type, fail) ==
    LET Match(doc) == PersonalFilter(doc, HitIds(results), user_id, doc_type)
        docs == Take(SelectSeq(Live(st1.personal), Match), top_k * 2)
        output == [j \in 1..Len(docs) |->
                     [id |-> docs[j].id, doc_type |-> docs[j].doc_type,
                      score |-> ScoreMap(results, docs[j].id)]]
    IN  IF ~ValidObjectId(user_id) \/ fail = "personal_store"
        THEN [st |-> st1, hits |-> results, caught |-> TRUE,
              joined |-> <<>>, out |-> <<>>]
        ELSE [st |-> [st1 EXCEPT !.personal = CountRelevant(@, HitIds(output))],
              hits |-> results, caught |-> FALSE,
              joined |-> output, out |-> Take(SortByScore(output), top_k)]

\* lines 291-331
PersonalSearchJoin(st1, user_id, query_embedding, top_k, doc_type, fail) ==
    PersonalJoin(st1, Search(st1.idxP, query_embedding, top_k * 2),
                 user_id, top_k, doc_type, fail)

\* retrieve_personal, lines 274-335
RetrievePersonal(st, user_id, query_embedding, top_k, doc_type, fail) ==
    PersonalSearchJoin(EnsureInitialized(st, fail), user_id, query_embedding,
                       top_k, doc_type, fail)

\* faulty variant: without personal documents nothing is returned
DualRetrieveNeedsBoth(st, user_id, query_embedding, global_top_k, personal_top_k, category, city, fail, globalSeesBoth, personalSeesBoth) ==
    LET once == Initialize(st, fail)
        twice == Initialize(once, fail)
        stG == IF st.init THEN st ELSE IF globalSeesBoth THEN twice ELSE once
        stP == IF st.init THEN st ELSE IF personalSeesBoth THEN twice ELSE once
        g == RetrieveGlobal(stG, query_embedding, global_top_k, category, city, fail)
        p == RetrievePersonal(stP, user_id, query_embedding, personal_top_k, <<>>, fail)
        end == IF st.init THEN st ELSE twice
    IN  [st |-> [end EXCEPT !.personal = p.st.personal],
         hits |-> p.hits, global |-> IF p.out = <<>> THEN <<>> ELSE g.out, personal |-> p.out,
         hitsG |-> g.hits, joinedG |-> g.joined, joined |-> p.joined,
         caughtG |-> g.caught, caught |-> p.caught]

\* faulty variant: a failure of one tier empties both
DualRetrieveFailsTogether(st, user_id, query_embedding, global_top_k, personal_top_k, category, city, fail, globalSeesBoth, personalSeesBoth) ==
    LET once == Initialize(st, fail)
        twice == Initialize(once, fail)
        stG == IF st.init THEN st ELSE IF globalSeesBoth THEN twice ELSE once
        stP == IF st.init THEN st ELSE IF personalSeesBoth THEN twice ELSE once
        g == RetrieveGlobal(stG, query_embedding, global_top_k, category, city, fail)
        p == RetrievePersonal(stP, user_id, query_embedding, personal_top_k, <<>>, fail)
        end == IF st.init THEN st ELSE twice
    IN  [st |-> [end EXCEPT !.personal = p.st.personal],
         hits |-> p.hits,
         global |-> IF g.caught \/ p.caught THEN <<>> ELSE g.out,
         personal |-> IF g.caught \/ p.caught THEN <<>> ELSE p.out,
         hitsG |-> g.hits, joinedG |-> g.joined, joined |-> p.joined,
         caughtG |-> g.caught, caught |-> p.caught]

\* dual_retrieve, lines 337-374.  gather starts retrieve_global, then
\* retrieve_personal when the first suspends; on a service not yet initialized
\* the first suspends inside initialize (line 50) before line 38 sets the
\* flag, so both load the stored embeddings.  Each search follows the load of
\* its own coroutine and may or may not follow the load of the other.
DualRetrieve(st, user_id, query_embedding, global_top_k, personal_top_k, category, city, fail, globalSeesBoth, personalSeesBoth) ==
    LET once == Initialize(st, fail)
        twice == Initialize(once, fail)
        stG == IF st.init THEN st ELSE IF globalSeesBoth THEN twice ELSE once
        stP == IF st.init THEN st ELSE IF personalSeesBoth THEN twice ELSE once
        g == RetrieveGlobal(stG, query_embedding, global_top_k, category, city, fail)
        p == RetrievePersonal(stP, user_id, query_embedding, personal_top_k, <<>>, fail)
        end == IF st.init THEN st ELSE twice
    IN  [st |-> [end EXCEPT !.personal = p.st.personal],
         hits |-> p.hits, global |-> g.out, personal |-> p.out,
         hitsG |-> g.hits, joinedG |-> g.joined, joined |-> p.joined,
         caughtG |-> g.caught, caught |-> p.caught]

(***************************************************************************)
(* The retrieval service as a state machine                                *)
(***************************************************************************)
MaxPersonal == 2

MaxGlobal == 2

\* no document is counted as relevant more than MaxRelevance times
MaxRelevance == 1

Embeddings == 1..2

PersonalInputs ==
    {[user_id |-> "u1", doc_type |-> "scan", emb |-> 1],
     [user_id |-> "u1", doc_type |-> "note", emb |-> 2],
     [user_id |-> "u2", doc_type |-> "scan", emb |-> 1]}

GlobalInputs ==
    {[category |-> "recycling", city |-> <<"Bengaluru">>, emb |-> 1],
     [category |-> "hazard", city |-> <<>>, emb |-> 2]}

Requesters == Users \cup {"guest"}

\* documents written with their embedding by another writer than the service
SeededPersonal ==
    <<[id |-> 1, user_id |-> "u2", doc_type |-> "scan", relevance_count |-> 0,
       embedding_id |-> <<>>, embedding |-> <<[dim |-> 512, val |-> 1]>>,
       removed |-> FALSE]>>

SeededGlobal ==
    <<[id |-> 1, category |-> "recycling", city |-> <<>>,
       embedding_id |-> <<>>, embedding |-> <<[dim |-> 384, val |-> 1]>>,
       removed |-> FALSE]>>

RagState ==
    [personal |-> ragPersonal, global |-> ragGlobal,
     idxP |-> idxPersonal, idxG |-> idxGlobal, init |-> ragInit]

SetRagStores(st) ==
    /\ ragPersonal' = st.personal
    /\ ragGlobal' = st.global
    /\ idxPersonal' = st.idxP
    /\ idxGlobal' = st.idxG
    /\ ragInit' = st.init

SetRagState(st) == SetRagStores(st) /\ UNCHANGED <<ragTasks, rankVars, routeVars, scanVars, tokenVars>>

\* __init__ (lines 23-24) in a process whose stores are empty or seeded
RagInit ==
    /\ \E seeded \in BOOLEAN :
        /\ ragPersonal = IF seeded THEN SeededPersonal ELSE <<>>
        /\ ragGlobal = IF seeded THEN SeededGlobal ELSE <<>>
    /\ idxPersonal = <<>>
    /\ idxGlobal = <<>>
    /\ ragInit = FALSE
    /\ ragTasks = NoCall
    /\ ragOut = NoCall

\* the document add_personal_document stores (lines 181-198): the fields of
\* the constructor call and embedding_id (line 197); the embedding is not
\* among them
NewPersonal(doc_id, d) ==
    [id |-> doc_id, user_id |-> d.user_id, doc_type |-> d.doc_type,
     relevance_count |-> 0, embedding_id |-> <<doc_id>>, embedding |-> <<>>,
     removed |-> FALSE]

\* the document add_global_document stores (lines 130-148)
NewGlobal(doc_id, d) ==
    [id |-> doc_id, category |-> d.category, city |-> d.city,
     embedding_id |-> <<doc_id>>, embedding |-> <<>>, removed |-> FALSE]

\* add_personal_document, lines 164-212: the embedding goes to the index only
AddPersonalDocument ==
    /\ ~ragOut.done
    /\ ~ragTasks.done
    /\ Len(ragPersonal) < MaxPersonal
    /\ \E d \in PersonalInputs :
        LET doc_id == Len(ragPersonal) + 1
        IN  /\ ragPersonal' = Append(ragPersonal, NewPersonal(doc_id, d))
            /\ idxPersonal' = IndexInsert(idxPersonal, <<[id |-> doc_id, emb |-> d.emb]>>)
    /\ UNCHANGED <<ragGlobal, idxGlobal, ragInit, ragTasks, ragOut, rankVars, routeVars, scanVars, tokenVars>>

\* add_global_document, lines 112-162
AddGlobalDocument ==
    /\ ~ragOut.done
    /\ ~ragTasks.done
    /\ Len(ragGlobal) < MaxGlobal
    /\ \E d \in GlobalInputs :
        LET doc_id == Len(ragGlobal) + 1
        IN  /\ ragGlobal' = Append(ragGlobal, NewGlobal(doc_id, d))
            /\ idxGlobal' = IndexInsert(idxGlobal, <<[id |-> doc_id, emb |-> d.emb]>>)
    /\ UNCHANGED <<ragPersonal, idxPersonal, ragInit, ragTasks, ragOut, rankVars, routeVars, scanVars, tokenVars>>

Countable ==
    \A j \in 1..Len(ragPersonal) : ragPersonal[j].relevance_count < MaxRelevance

\* a tier that was not asked
NoTier == [hits |-> <<>>, joined |-> <<>>, out |-> <<>>, caught |-> FALSE]

\* what a call returned (global, personal) and, for each tier, what the
\* index answered (hitsG, hits) and what the join produced before the sort
\* (joinedG, joined)
RagOutcome(op, args, g, p) ==
    [done |-> TRUE, op |-> op, user_id |-> args.user_id,
     global_top_k |-> args.global_top_k, top_k |-> args.top_k,
     category |-> args.category, city |-> args.city, doc_type |-> args.doc_type,
     fail |-> args.fail,
     hitsG |-> g.hits, joinedG |-> g.joined, global |-> g.out,
     hits |-> p.hits, joined |-> p.joined, personal |-> p.out]

\* the arguments of a call, with the defaults of those it does not take
GlobalArgs(c) ==
    [user_id |-> "", global_top_k |-> c.top_k, top_k |-> 0, category |-> c.category,
     city |-> c.city, doc_type |-> <<>>, fail |-> c.fail]

PersonalArgs(c) ==
    [user_id |-> c.user_id, global_top_k |-> 0, top_k |-> c.top_k, category |-> <<>>,
     city |-> <<>>, doc_type |-> c.doc_type, fail |-> c.fail]

DualArgs(c) ==
    [user_id |-> c.user_id, global_top_k |-> 1, top_k |-> c.top_k, category |-> <<>>,
     city |-> <<"Bengaluru">>, doc_type |-> <<>>, fail |-> c.fail]

\* the calls: requester, query, limit, filter, and the store whose find
\* raises during the call
GlobalCalls ==
    {[query_embedding |-> 1, top_k |-> 1, category |-> <<>>, city |-> <<>>,
      fail |-> "none"],
     [query_embedding |-> 2, top_k |-> 2, category |-> <<>>, city |-> <<"Bengaluru">>,
      fail |-> "none"],
     [query_embedding |-> 1, top_k |-> 2, category |-> <<"recycling">>,
      city |-> <<"Bengaluru">>, fail |-> "none"],
     [query_embedding |-> 2, top_k |-> 1, category |-> <<>>, city |-> <<"Bengaluru">>,
      fail |-> "global_store"]}

PersonalCalls ==
    {[user_id |-> "u1", query_embedding |-> 1, top_k |-> 1, doc_type |-> <<>>,
      fail |-> "none"],
     [user_id |-> "u1", query_embedding |-> 2, top_k |-> 2, doc_type |-> <<>>,
      fail |-> "none"],
     [user_id |-> "u2", query_embedding |-> 1, top_k |-> 2, doc_type |-> <<"scan">>,
      fail |-> "none"],
     [user_id |-> "u2", query_embedding |-> 2, top_k |-> 1, doc_type |-> <<>>,
      fail |-> "none"],
     [user_id |-> "guest", query_embedding |-> 1, top_k |-> 1, doc_type |-> <<>>,
      fail |-> "none"],
     [user_id |-> "u1", query_embedding |-> 1, top_k |-> 2, doc_type |-> <<>>,
      fail |-> "personal_store"]}

DualCalls ==
    {[user_id |-> "u1", query_embedding |-> 2, top_k |-> 2, fail |-> "none"],
     [user_id |-> "u2", query_embedding |-> 1, top_k |-> 1, fail |-> "none"],
     [user_id |-> "guest", query_embedding |-> 1, top_k |-> 2, fail |-> "none"],
     [user_id |-> "u2", query_embedding |-> 1, top_k |-> 1, fail |-> "personal_store"],
     [user_id |-> "u1", query_embedding |-> 2, top_k |-> 1, fail |-> "global_store"]}

RetrieveGlobalCall ==
    /\ ~ragOut.done
    /\ \E c \in GlobalCalls :
        \E r \in {RetrieveGlobal(RagState, c.query_embedding, c.top_k, c.category,
                                 c.city, c.fail)} :
            /\ SetRagState(r.st)
            /\ ragOut' = RagOutcome("retrieve_global", GlobalArgs(c), r, NoTier)

RetrievePersonalCall ==
    /\ ~ragOut.done
    /\ Countable
    /\ \E c \in PersonalCalls :
        \E r \in {RetrievePersonal(RagState, c.user_id, c.query_embedding, c.top_k,
                                   c.doc_type, c.fail)} :
            /\ SetRagState(r.st)
            /\ ragOut' = RagOutcome("retrieve_personal", PersonalArgs(c), NoTier, r)

DualRetrieveCall ==
    /\ ~ragOut.done
    /\ Countable
    /\ \E c \in DualCalls, late \in IF ragInit THEN {FALSE} ELSE BOOLEAN :
        \E r \in {DualRetrieve(RagState, c.user_id, c.query_embedding, 1, c.top_k,
                               DualArgs(c).category, DualArgs(c).city, c.fail,
                               late, ~late)} :
            /\ SetRagState(r.st)
            /\ ragOut' = RagOutcome("dual_retrieve", DualArgs(c),
                              [hits |-> r.hitsG, joined |-> r.joinedG, out |-> r.global],
                              [hits |-> r.hits, joined |-> r.joined, out |-> r.personal])

\* the caller has consumed the documents
RagReturn ==
    /\ ragOut.done
    /\ ragOut' = NoCall
    /\ ragTasks' = NoCall
    /\ UNCHANGED <<ragPersonal, ragGlobal, idxPersonal, idxGlobal, ragInit, rankVars, routeVars, scanVars, tokenVars>>

\* at most MaxRemoved documents are deleted from each store
MaxRemoved == 1

Removed(coll) == Len(coll) - Len(Live(coll))

Indexed(index, id) == \E j \in 1..Len(index) : index[j].id = id

\* another writer deletes a document of a store that the index holds; the
\* index is not told
RemovePersonalDocument ==
    /\ ~ragOut.done
    /\ Removed(ragPersonal) < MaxRemoved
    /\ \E j \in 1..Len(ragPersonal) :
        /\ ~ragPersonal[j].removed
        /\ Indexed(idxPersonal, ragPersonal[j].id)
        /\ ragPersonal' = [ragPersonal EXCEPT ![j].removed = TRUE]
    /\ UNCHANGED <<ragGlobal, idxPersonal, idxGlobal, ragInit, ragTasks, ragOut, rankVars, routeVars, scanVars, tokenVars>>

RemoveGlobalDocument ==
    /\ ~ragOut.done
    /\ Removed(ragGlobal) < MaxRemoved
    /\ \E j \in 1..Len(ragGlobal) :
        /\ ~ragGlobal[j].removed
        /\ Indexed(idxGlobal, ragGlobal[j].id)
        /\ ragGlobal' = [ragGlobal EXCEPT ![j].removed = TRUE]
    /\ UNCHANGED <<ragPersonal, idxPersonal, idxGlobal, ragInit, ragTasks, ragOut, rankVars, routeVars, scanVars, tokenVars>>

\* the retrieval service alone
InitRag == RagInit /\ RouteInit /\ RankIdle /\ ScanIdle /\ TokenIdle

NextRag ==
    \/ AddPersonalDocument
    \/ AddGlobalDocument
    \/ RetrieveGlobalCall
    \/ RetrievePersonalCall
    \/ DualRetrieveCall
    \/ RagReturn

SpecRag == InitRag /\ [][NextRag]_vars

\* the retrievals over stores that another writer deletes from
NextSkew ==
    \/ AddPersonalDocument
    \/ AddGlobalDocument
    \/ RemovePersonalDocument
    \/ RemoveGlobalDocument
    \/ RetrieveGlobalCall
    \/ RetrievePersonalCall
    \/ DualRetrieveCall
    \/ RagReturn

SpecSkew == InitRag /\ [][NextSkew]_vars

\* add_personal_document whose index insert (line 201) raises: the document
\* of lines 191-198 stays in the store and the exception goes to the caller
AddPersonalDocumentFails ==
    /\ ~ragOut.done
    /\ Len(ragPersonal) < MaxPersonal
    /\ \E d \in PersonalInputs :
        ragPersonal' = Append(ragPersonal, NewPersonal(Len(ragPersonal) + 1, d))
    /\ UNCHANGED <<ragGlobal, idxPersonal, idxGlobal, ragInit, ragTasks, ragOut, rankVars, routeVars, scanVars, tokenVars>>

\* add_global_document whose index insert (line 151) raises
AddGlobalDocumentFails ==
    /\ ~ragOut.done
    /\ Len(ragGlobal) < MaxGlobal
    /\ \E d \in GlobalInputs :
        ragGlobal' = Append(ragGlobal, NewGlobal(Len(ragGlobal) + 1, d))
    /\ UNCHANGED <<ragPersonal, idxPersonal, idxGlobal, ragInit, ragTasks, ragOut, rankVars, routeVars, scanVars, tokenVars>>

\* the process ends and a new one starts: RAGService() of line 378 over the
\* same stores, with empty indices
Restart ==
    /\ ~ragOut.done
    /\ ragInit
    /\ idxPersonal' = <<>>
    /\ idxGlobal' = <<>>
    /\ ragInit' = FALSE
    /\ UNCHANGED <<ragPersonal, ragGlobal, ragTasks, ragOut, rankVars, routeVars, scanVars, tokenVars>>

\* the service over restarts and failing index inserts
NextRestart ==
    \/ AddPersonalDocument
    \/ AddGlobalDocument
    \/ AddPersonalDocumentFails
    \/ AddGlobalDocumentFails
    \/ Restart
    \/ RetrieveGlobalCall
    \/ RetrievePersonalCall
    \/ RagReturn

SpecRestart == InitRag /\ [][NextRestart]_vars

\* the fusion step alone
InitScan == ScanIdle /\ RouteInit /\ RankIdle /\ RagIdle /\ TokenIdle

NextScan == ScanImageCall \/ ScanReturn

SpecScan == InitScan /\ [][NextScan]_vars

(***************************************************************************)
(* dual_retrieve, one step per suspension point                            *)
(*                                                                         *)
(* asyncio.gather (line 368) wraps the two coroutines in tasks and runs    *)
(* them on one event loop: a task runs until it awaits something that is   *)
(* not ready, then the other may run.  A task is at                        *)
(*   "created"    not yet run                                              *)
(*   "loading"    inside initialize, awaiting the stored embeddings        *)
(*   "searching"  awaiting the index search                                *)
(*   "joining"    awaiting the find of the join                            *)
(*   "finished"   returned its list (out)                                  *)
(***************************************************************************)
NewTask == [pc |-> "created", hits |-> <<>>, joined |-> <<>>, out |-> <<>>]

\* lines 228-229, 288-289: the flag is read before the first await
FirstAwait(init) == IF init THEN "searching" ELSE "loading"

\* faulty variant: retrieve_personal is awaited after retrieve_global returned
StartsAfterGlobal(tasks) == tasks.g.pc = "finished"

\* gather creates the task of retrieve_global first and the loop runs the
\* tasks in that order: retrieve_personal runs once retrieve_global is
\* suspended or has returned
PersonalMayRun(tasks) == tasks.g.pc # "created"

\* lines 356-368: the coroutines are created and handed to gather; loads
\* counts the runs of _load_existing_embeddings during the call
DualStart ==
    /\ ~ragOut.done
    /\ ~ragTasks.done
    /\ Countable
    /\ \E c \in DualCalls :
        ragTasks' = [done |-> TRUE, args |-> DualArgs(c),
                     query_embedding |-> c.query_embedding,
                     g |-> NewTask, p |-> NewTask, loads |-> 0]
    /\ UNCHANGED <<ragPersonal, ragGlobal, idxPersonal, idxGlobal, ragInit, ragOut,
                   rankVars, routeVars, scanVars, tokenVars>>

\* retrieve_global from one await to the next
GlobalStep ==
    /\ ragTasks.done
    /\ ragTasks.g.pc # "finished"
    /\ \/ /\ ragTasks.g.pc = "created"
          /\ ragTasks' = [ragTasks EXCEPT !.g.pc = FirstAwait(ragInit)]
          /\ UNCHANGED <<ragPersonal, ragGlobal, idxPersonal, idxGlobal, ragInit>>
       \/ /\ ragTasks.g.pc = "loading"
          /\ \E st \in {Initialize(RagState, ragTasks.args.fail)} : SetRagStores(st)
          /\ ragTasks' = [ragTasks EXCEPT !.g.pc = "searching", !.loads = @ + 1]
       \/ /\ ragTasks.g.pc = "searching"
          /\ ragTasks' = [ragTasks EXCEPT
                 !.g.pc = "joining",
                 !.g.hits = Search(idxGlobal, ragTasks.query_embedding,
                                   ragTasks.args.global_top_k * 2)]
          /\ UNCHANGED <<ragPersonal, ragGlobal, idxPersonal, idxGlobal, ragInit>>
       \/ /\ ragTasks.g.pc = "joining"
          /\ \E r \in {GlobalJoin(RagState, ragTasks.g.hits, ragTasks.args.global_top_k,
                                  ragTasks.args.category, ragTasks.args.city, ragTasks.args.fail)} :
                ragTasks' = [ragTasks EXCEPT !.g.pc = "finished",
                                             !.g.joined = r.joined, !.g.out = r.out]
          /\ UNCHANGED <<ragPersonal, ragGlobal, idxPersonal, idxGlobal, ragInit>>
    /\ UNCHANGED <<ragOut, rankVars, routeVars, scanVars, tokenVars>>

\* retrieve_personal from one await to the next
PersonalStep ==
    /\ ragTasks.done
    /\ ragTasks.p.pc # "finished"
    /\ \/ /\ ragTasks.p.pc = "created"
          /\ PersonalMayRun(ragTasks)
          /\ ragTasks' = [ragTasks EXCEPT !.p.pc = FirstAwait(ragInit)]
          /\ UNCHANGED <<ragPersonal, ragGlobal, idxPersonal, idxGlobal, ragInit>>
       \/ /\ ragTasks.p.pc = "loading"
          /\ \E st \in {Initialize(RagState, ragTasks.args.fail)} : SetRagStores(st)
          /\ ragTasks' = [ragTasks EXCEPT !.p.pc = "searching", !.loads = @ + 1]
       \/ /\ ragTasks.p.pc = "searching"
          /\ ragTasks' = [ragTasks EXCEPT
                 !.p.pc = "joining",
                 !.p.hits = Search(idxPersonal, ragTasks.query_embedding,
                                   ragTasks.args.top_k * 2)]
          /\ UNCHANGED <<ragPersonal, ragGlobal, idxPersonal, idxGlobal, ragInit>>
       \/ /\ ragTasks.p.pc = "joining"
          /\ \E r \in {PersonalJoin(RagState, ragTasks.p.hits, ragTasks.args.user_id,
                                    ragTasks.args.top_k, <<>>, ragTasks.args.fail)} :
                /\ SetRagStores(r.st)
                /\ ragTasks' = [ragTasks EXCEPT !.p.pc = "finished",
                                                !.p.joined = r.joined, !.p.out = r.out]
    /\ UNCHANGED <<ragOut, rankVars, routeVars, scanVars, tokenVars>>

\* lines 368-370: gather returns when both tasks have, the lists in the
\* order of its arguments
DualReturn ==
    /\ ragTasks.done
    /\ ragTasks.g.pc = "finished"
    /\ ragTasks.p.pc = "finished"
    /\ ragOut' = RagOutcome("dual_retrieve", ragTasks.args, ragTasks.g, ragTasks.p)
    /\ ragTasks' = [ragTasks EXCEPT !.done = FALSE]
    /\ UNCHANGED <<ragPersonal, ragGlobal, idxPersonal, idxGlobal, ragInit,
                   rankVars, routeVars, scanVars, tokenVars>>

NextDual ==
    \/ AddPersonalDocument
    \/ AddGlobalDocument
    \/ DualStart
    \/ GlobalStep
    \/ PersonalStep
    \/ DualReturn
    \/ RagReturn

SpecDual == InitRag /\ [][NextDual]_vars

(***************************************************************************)
(* TokenService.redeem_token behind POST /user/redeem_token, one step per  *)
(* suspension point                                                        *)
(*                                                                         *)
(* Each request runs redeem_token as a coroutine on the one event loop: it *)
(* runs alone from one await to the next, and at every await (each call of *)
(* the store) the coroutines of other requests may run.                    *)
(*                                                                         *)
(* A token: token_id, user_id, credits, status, expired (utcnow() is past  *)
(* its expires_at).  A wallet: user_id, balance, total_earned.             *)
(* A call: its arguments, pc (the await it is suspended at, or "returned", *)
(* "raised"), the token and the wallet it has read, and the HTTP status.   *)
(***************************************************************************)
MaxRedeems == 2

\* tokens issued by create_token and not yet redeemed
IssuedTokens ==
    <<[token_id |-> 1, user_id |-> "u1", credits |-> 10, status |-> "unused",
       expired |-> FALSE],
      [token_id |-> 2, user_id |-> "u1", credits |-> 5, status |-> "unused",
       expired |-> FALSE],
      [token_id |-> 3, user_id |-> "u2", credits |-> 7, status |-> "unused",
       expired |-> TRUE]>>

\* the form fields of a request: the owner's tokens, a token of another
\* user, an expired token, a token_id that was never issued
RedeemRequests ==
    {[user_id |-> "u1", token_id |-> 1], [user_id |-> "u1", token_id |-> 2],
     [user_id |-> "u2", token_id |-> 1], [user_id |-> "u2", token_id |-> 3],
     [user_id |-> "u1", token_id |-> 4]}

\* lines 121-128: the wallet created for a user without one (balance 0)
NewWallet(user_id) == [user_id |-> user_id, balance |-> 0, total_earned |-> 0]

TokenInit ==
    /\ tokens = IssuedTokens
    /\ \E w \in {<<>>, <<NewWallet("u1")>>} : wallets = w
    /\ redemptions = <<>>
    /\ redeemCalls = <<>>

\* find_one: the position of the first document among those that match
\* (found), or 0
First(found) ==
    IF found = {} THEN 0 ELSE CHOOSE i \in found : \A j \in found : i <= j

\* line 96: tokens_collection.find_one({"token_id": token_id})
FindToken(toks, token_id) ==
    First({i \in 1..Len(toks) : toks[i].token_id = token_id})

\* line 117: wallets_collection.find_one({"user_id": ObjectId(user_id)})
FindWallet(ws, user_id) ==
    First({i \in 1..Len(ws) : ws[i].user_id = user_id})

\* lines 98-114: the ValueError raised for the token read, "" for none
TokenError(toks, t, user_id) ==
    IF t = 0 THEN "Token not found"
    ELSE IF toks[t].user_id # user_id THEN "Token does not belong to this user"
    ELSE IF toks[t].status = "used" THEN "Token already used"
    ELSE IF toks[t].status # "unused" THEN "Token already expired"
    ELSE IF toks[t].expired THEN "Token has expired"
    ELSE ""

\* lines 133-149: balance is set to the sum computed from the wallet as it
\* was read; total_earned is incremented in the store
CreditWallet(wallet, old_balance, credits) ==
    [wallet EXCEPT !.balance = old_balance + credits, !.total_earned = @ + credits]

\* token_routes.py lines 21-35: the status of the response
HttpStatus(error) == IF error = "" THEN 200 ELSE 400

NewRedeem(user_id, token_id) ==
    [user_id |-> user_id, token_id |-> token_id, pc |-> "find_token",
     token |-> 0, credits |-> 0, wallet |-> 0, old_balance |-> 0,
     error |-> "", status |-> 0]

\* the request arrives and redeem_token runs to its first await (line 96)
RedeemTokenCall ==
    /\ Len(redeemCalls) < MaxRedeems
    /\ \E r \in RedeemRequests :
           redeemCalls' = Append(redeemCalls, NewRedeem(r.user_id, r.token_id))
    /\ UNCHANGED <<tokens, wallets, redemptions, rankVars, routeVars, ragVars, scanVars>>

\* lines 96-108: the token is read and accepted: on to the wallet (line 117)
TokenFound ==
    \E i \in 1..Len(redeemCalls) :
        /\ redeemCalls[i].pc = "find_token"
        /\ TokenError(tokens, FindToken(tokens, redeemCalls[i].token_id),
                      redeemCalls[i].user_id) = ""
        /\ redeemCalls' = [redeemCalls EXCEPT
               ![i].pc = "find_wallet",
               ![i].token = FindToken(tokens, redeemCalls[i].token_id),
               ![i].credits = tokens[FindToken(tokens, redeemCalls[i].token_id)].credits]
        /\ UNCHANGED <<tokens, wallets, redemptions, rankVars, routeVars, ragVars, scanVars>>

\* lines 96-110: the token is read and refused; an expired one is first
\* marked (line 110), the others raise at once and the route answers 400
TokenRefused ==
    \E i \in 1..Len(redeemCalls) :
        /\ redeemCalls[i].pc = "find_token"
        /\ \E e \in {TokenError(tokens, FindToken(tokens, redeemCalls[i].token_id),
                                redeemCalls[i].user_id)} :
              /\ e # ""
              /\ redeemCalls' = [redeemCalls EXCEPT
                     ![i].pc = IF e = "Token has expired" THEN "mark_expired" ELSE "raised",
                     ![i].token = FindToken(tokens, redeemCalls[i].token_id),
                     ![i].error = e,
                     ![i].status = IF e = "Token has expired" THEN 0 ELSE HttpStatus(e)]
        /\ UNCHANGED <<tokens, wallets, redemptions, rankVars, routeVars, ragVars, scanVars>>

\* lines 110-114: the expired token is marked and the call raises
TokenExpired ==
    \E i \in 1..Len(redeemCalls) :
        /\ redeemCalls[i].pc = "mark_expired"
        /\ tokens' = [tokens EXCEPT ![redeemCalls[i].token].status = "expired"]
        /\ redeemCalls' = [redeemCalls EXCEPT
               ![i].pc = "raised", ![i].status = HttpStatus(redeemCalls[i].error)]
        /\ UNCHANGED <<wallets, redemptions, rankVars, routeVars, ragVars, scanVars>>

\* lines 117-138 with a wallet found: its balance is read
WalletFound ==
    \E i \in 1..Len(redeemCalls) :
        /\ redeemCalls[i].pc = "find_wallet"
        /\ FindWallet(wallets, redeemCalls[i].user_id) # 0
        /\ redeemCalls' = [redeemCalls EXCEPT
               ![i].pc = "update_wallet",
               ![i].wallet = FindWallet(wallets, redeemCalls[i].user_id),
               ![i].old_balance =
                   wallets[FindWallet(wallets, redeemCalls[i].user_id)].balance]
        /\ UNCHANGED <<tokens, wallets, redemptions, rankVars, routeVars, ragVars, scanVars>>

\* lines 117-129 without a wallet: on to insert_one
WalletMissing ==
    \E i \in 1..Len(redeemCalls) :
        /\ redeemCalls[i].pc = "find_wallet"
        /\ FindWallet(wallets, redeemCalls[i].user_id) = 0
        /\ redeemCalls' = [redeemCalls EXCEPT ![i].pc = "insert_wallet"]
        /\ UNCHANGED <<tokens, wallets, redemptions, rankVars, routeVars, ragVars, scanVars>>

\* lines 129-138: the new wallet is stored, the call goes on with it
WalletInserted ==
    \E i \in 1..Len(redeemCalls) :
        /\ redeemCalls[i].pc = "insert_wallet"
        /\ wallets' = Append(wallets, NewWallet(redeemCalls[i].user_id))
        /\ redeemCalls' = [redeemCalls EXCEPT
               ![i].pc = "update_wallet",
               ![i].wallet = Len(wallets) + 1,
               ![i].old_balance = 0]
        /\ UNCHANGED <<tokens, redemptions, rankVars, routeVars, ragVars, scanVars>>

\* lines 138-152: update_one on the wallet
WalletUpdated ==
    \E i \in 1..Len(redeemCalls) :
        /\ redeemCalls[i].pc = "update_wallet"
        /\ wallets' = [wallets EXCEPT ![redeemCalls[i].wallet] =
               CreditWallet(@, redeemCalls[i].old_balance, redeemCalls[i].credits)]
        /\ redeemCalls' = [redeemCalls EXCEPT ![i].pc = "mark_used"]
        /\ UNCHANGED <<tokens, redemptions, rankVars, routeVars, ragVars, scanVars>>

\* lines 152-171: update_one on the token
TokenUsed ==
    \E i \in 1..Len(redeemCalls) :
        /\ redeemCalls[i].pc = "mark_used"
        /\ tokens' = [tokens EXCEPT ![redeemCalls[i].token].status = "used"]
        /\ redeemCalls' = [redeemCalls EXCEPT ![i].pc = "log_redemption"]
        /\ UNCHANGED <<wallets, redemptions, rankVars, routeVars, ragVars, scanVars>>

\* lines 171-182 and token_routes.py 24-29: the redemption is logged and the
\* call returns
RedemptionLogged ==
    \E i \in 1..Len(redeemCalls) :
        /\ redeemCalls[i].pc = "log_redemption"
        /\ redemptions' = Append(redemptions,
               [token |-> redeemCalls[i].token, user_id |-> redeemCalls[i].user_id,
                credits |-> redeemCalls[i].credits,
                wallet_balance_before |-> redeemCalls[i].old_balance,
                wallet_balance_after |-> redeemCalls[i].old_balance
                                             + redeemCalls[i].credits])
        /\ redeemCalls' = [redeemCalls EXCEPT
               ![i].pc = "returned", ![i].status = HttpStatus("")]
        /\ UNCHANGED <<tokens, wallets, rankVars, routeVars, ragVars, scanVars>>

\* the token service alone
InitToken == TokenInit /\ RouteInit /\ RankIdle /\ RagIdle /\ ScanIdle

NextToken ==
    \/ RedeemTokenCall
    \/ TokenFound
    \/ TokenRefused
    \/ TokenExpired
    \/ WalletFound
    \/ WalletMissing
    \/ WalletInserted
    \/ WalletUpdated
    \/ TokenUsed
    \/ RedemptionLogged

SpecToken == InitToken /\ [][NextToken]_vars

(***************************************************************************)
(* Properties of rank_recyclers (checked under SpecRank)                   *)
(***************************************************************************)
Result == rankOut.result

Req == rankCall.req

\* the stored document an entry of the result was computed from
DocOf(entry) == recyclers[entry.recycler_id]

\* the candidate takes the material: its code is in the flat list, or a
\* record names it with accepts = true
Accepts(rec, material) ==
    LET mats == Get(rec.materials_accepted, <<>>)
    IN  \E k \in 1..Len(mats) :
            \/ mats[k].isStr /\ mats[k].code = material
            \/ ~mats[k].isStr /\ mats[k].material = material
                              /\ mats[k].accepts = <<TRUE>>

\* the entries scored successfully, in candidate order
ScoredEntries == Scored(rankOut.outcomes)

InResult(id) == \E k \in 1..Len(Result) : Result[k].recycler_id = id

\* C1: no returned entry has material_accept_score = 0, and every returned
\* entry belongs to a candidate that accepts the requested material: one that
\* does not is absent from the output.
C1_NoZeroMaterialScore ==
    rankOut.done =>
        \A k \in 1..Len(Result) :
            /\ Result[k].material_accept_score # 0
            /\ Accepts(DocOf(Result[k]), Req.material)

\* a ranking that dropped a candidate for the material and returned others
C1_Witness ==
    /\ rankOut.done
    /\ Result # <<>>
    /\ \E j \in 1..Len(rankOut.cands) :
           /\ rankOut.outcomes[j].status = "none"
           /\ ~Accepts(rankOut.cands[j], Req.material)
           /\ ~InResult(rankOut.cands[j].id)

\* C2: the result has at most 10 entries, in non-increasing order of
\* total_score, and no scored candidate left out of it has a total_score
\* strictly greater than a returned entry.
C2_TopTenSorted ==
    rankOut.done =>
        /\ Len(Result) <= 10
        /\ \A k \in 1..(Len(Result) - 1) :
               Result[k].total_score >= Result[k + 1].total_score
        /\ \A j \in 1..Len(ScoredEntries) :
               ~InResult(ScoredEntries[j].recycler_id) =>
                   \A k \in 1..Len(Result) :
                       ScoredEntries[j].total_score <= Result[k].total_score

\* more than ten scored candidates with different totals: the list is cut
C2_Witness ==
    /\ rankOut.done
    /\ Len(ScoredEntries) > 10
    /\ Len(Result) = 10
    /\ Result[1].total_score > Result[10].total_score
    /\ \E j \in 1..Len(ScoredEntries) : ~InResult(ScoredEntries[j].recycler_id)

\* C3: every returned entry's total_score is the dot product of its own six
\* sub-scores with the weights 0.30, 0.25, 0.15, 0.10, 0.10, 0.10, and the
\* weights sum to 1.0.
C3_WeightedSum ==
    /\ W1 + W2 + W3 + W4 + W5 + W6 = 100
    /\ rankOut.done =>
        \A k \in 1..Len(Result) :
            Result[k].total_score =
                30 * Result[k].distance_score
                + 25 * Result[k].material_accept_score
                + 15 * Result[k].capacity_score
                + 10 * Result[k].price_score
                + 10 * Result[k].road_accessibility_score
                + 10 * Result[k].catchment_zone_match

\* an entry whose six sub-scores are not all equal
C3_Witness ==
    /\ rankOut.done
    /\ \E k \in 1..Len(Result) :
           /\ Result[k].distance_score # Result[k].material_accept_score
           /\ Result[k].capacity_score # Result[k].price_score
           /\ Result[k].total_score > 0

UnitInterval(x) == 0 <= x /\ x <= 10000

WithinFilter(rec) ==
    /\ ~Unpack(rec).exc
    /\ HaversineM(Req.user_lat, Req.user_lon, Unpack(rec).lat, Unpack(rec).lon)
           <= 20000

FallbackEligible ==
    SelectSeq(Take(SelectSeq(recyclers, IsActive), 100), WithinFilter)

\* the candidate accepts the material and its scoring raises nothing
Rankable(rec) == ScoreRecycler(rec, Req).status = "scored"

\* C7: when the native proximity query raised and the store still answers
\* the plain query, the ranking is non-empty whenever at least one active
\* provider within the 20 km great-circle filter can be ranked (it accepts
\* the requested material).
C7_FallbackNonEmpty ==
    (rankOut.done /\ rankOut.path = "fallback" /\ Req.store # "down") =>
        ((\E k \in 1..Len(FallbackEligible) : Rankable(FallbackEligible[k]))
            => Result # <<>>)

\* C8: a failure on one candidate does not abort the batch: every other
\* candidate of the request is still scored, and returned when the result
\* has room for it.
C8_FailureIsolated ==
    (rankOut.done /\ rankOut.path = "fallback" /\ Req.store # "down") =>
        \A k \in 1..Len(FallbackEligible) :
            Rankable(FallbackEligible[k]) =>
                /\ \E j \in 1..Len(ScoredEntries) :
                       ScoredEntries[j].recycler_id = FallbackEligible[k].id
                /\ (InResult(FallbackEligible[k].id) \/ Len(Result) = 10)

\* C9: rank_recyclers never raises; with no candidates, and on any failure
\* of the store, it returns an empty list; a routing failure leaves an
\* approximate ranking.
C9_NeverRaises ==
    rankOut.done =>
        /\ ~rankOut.raised
        /\ (rankOut.cands = <<>> => Result = <<>>)
        /\ (Req.store = "down" => Result = <<>>)
        /\ (Req.osrm = "down" =>
               \A k \in 1..Len(Result) :
                   Result[k].distance_km =
                       RoundDiv(HaversineM(Req.user_lat, Req.user_lon,
                                    Unpack(DocOf(Result[k])).lat,
                                    Unpack(DocOf(Result[k])).lon), 10))

\* the store is down and the call returned an empty list
C9_Witness ==
    /\ rankOut.done
    /\ Req.store = "down"
    /\ rankOut.aborted
    /\ Result = <<>>
    /\ recyclers # <<>>

(***************************************************************************)
(* Properties of get_route (checked under SpecRoute)                       *)
(***************************************************************************)
\* the routing service's figures may be used: code "Ok", a non-empty route list
Usable(resp) ==
    /\ resp.net = "ok"
    /\ resp.status >= 200 /\ resp.status <= 299
    /\ resp.body = "object"
    /\ resp.code = "Ok"
    /\ Get(resp.routes, <<>>) # <<>>

\* C5: get_route never raises, and the estimate it returns has distance and
\* duration >= 0, whatever the routing service does.
C5_RouteTotal ==
    routeCall.done =>
        /\ ~routeOut.exc
        /\ routeOut.val.distance_km >= 0
        /\ routeOut.val.duration_min >= 0

\* C6: in each of the unavailable conditions get_route returns exactly the
\* haversine estimate of the same coordinates, and the routing service's
\* figures are used only under code "Ok" with a non-empty route list.
C6_FallbackExactly ==
    routeCall.done =>
        /\ ~Usable(routeCall.resp) =>
               /\ ~routeOut.exc
               /\ routeOut.source = "fallback"
               /\ routeOut.val.distance_m =
                      HaversineM(routeCall.start_lat, routeCall.start_lon,
                                 routeCall.end_lat, routeCall.end_lon)
               /\ routeOut.val.distance_km = RoundDiv(routeOut.val.distance_m, 10)
               /\ routeOut.val.duration_min = RoundDiv(routeOut.val.distance_m, 50)
        /\ routeOut.source = "osrm" => Usable(routeCall.resp)

\* the fallback for the same two points taken the other way round
Backwards ==
    HaversineRoute(routeCall.end_lat, routeCall.end_lon,
                   routeCall.start_lat, routeCall.start_lon)

SamePoint == routeCall.start_lat = routeCall.end_lat /\ routeCall.start_lon = routeCall.end_lon

\* C19: on the fallback path the distance from a point to itself is 0, and
\* the fallback from A to B comes out as the fallback from B to A does: the
\* same distance, in metres and in kilometres, or the same failure.
C19_FallbackSymmetric ==
    (routeCall.done /\ routeOut.source = "fallback") =>
        /\ SamePoint =>
               /\ ~routeOut.exc
               /\ routeOut.val.distance_m = 0
               /\ routeOut.val.distance_km = 0
        /\ routeOut.exc = Backwards.exc
        /\ routeOut.val.distance_m = Backwards.val.distance_m
        /\ routeOut.val.distance_km = Backwards.val.distance_km

\* the fallback has estimated a route between points of different latitude
\* and longitude
C19_Witness ==
    /\ routeCall.done
    /\ routeOut.source = "fallback"
    /\ ~routeOut.exc
    /\ routeCall.start_lat < routeCall.end_lat
    /\ routeCall.start_lon # routeCall.end_lon
    /\ routeOut.val.distance_m > 0
    /\ routeOut.val.distance_m = Backwards.val.distance_m

Place(recycler_id) ==
    CHOOSE k \in 1..Len(ScoredEntries) : ScoredEntries[k].recycler_id = recycler_id

\* C17: two entries of the output with equal total_score stand in the order
\* their candidates had in the list the directory lookup returned.
C17_TiesKeepCandidateOrder ==
    rankOut.done =>
        \A a, b \in 1..Len(Result) :
            (a < b /\ Result[a].total_score = Result[b].total_score) =>
                Place(Result[a].recycler_id) < Place(Result[b].recycler_id)

\* the output holds a tie, after an entry that the sort moved ahead of
\* candidates listed before it
C17_Witness ==
    /\ rankOut.done
    /\ \E a, b \in 1..Len(Result) :
          /\ a < b
          /\ Result[a].total_score = Result[b].total_score
          /\ Result[1].total_score > Result[a].total_score
    /\ Place(Result[1].recycler_id) > 1

(***************************************************************************)
(* Properties of the sub-scores (checked under SpecRank)                   *)
(***************************************************************************)
\* the list holds material codes only
FlatList(mats) == mats # <<>> /\ \A k \in 1..Len(mats) : mats[k].isStr

\* the record takes the requested material
RecordFor(mat, material) ==
    ~mat.isStr /\ mat.material = material /\ mat.accepts = <<TRUE>>

\* the requested weight lies within the record's bounds (defaults 0, 1000)
WithinBounds(mat, weight_kg) ==
    /\ Get(mat.min_weight_kg, 0) <= weight_kg
    /\ weight_kg <= Get(mat.max_weight_kg, 1000)

\* the candidate accepts the material in either shape
AcceptsInFull(rec, material, weight_kg) ==
    \/ /\ FlatList(Get(rec.materials_accepted, <<>>))
       /\ \E k \in 1..Len(rec.materials_accepted[1]) :
              rec.materials_accepted[1][k].code = material
    \/ \E k \in 1..Len(Get(rec.materials_accepted, <<>>)) :
           /\ RecordFor(rec.materials_accepted[1][k], material)
           /\ WithinBounds(rec.materials_accepted[1][k], weight_kg)

\* the candidate has a record for the material, the weight outside its bounds
AcceptsOutsideBounds(rec, material, weight_kg) ==
    \E k \in 1..Len(Get(rec.materials_accepted, <<>>)) :
        /\ RecordFor(rec.materials_accepted[1][k], material)
        /\ ~WithinBounds(rec.materials_accepted[1][k], weight_kg)

\* the candidate's entry is in the output, or ten entries ranked above it
Emitted(j) ==
    /\ rankOut.outcomes[j].status = "scored"
    /\ InResult(rankOut.cands[j].id) \/ Len(Result) = 10

\* C22: material_accept_score is 1.0 when the candidate accepts the requested
\* material in either shape (a flat list holding the code, or a record for
\* the material with accepts = true whose weight bounds contain the requested
\* weight) and 0.5 when the record exists but the weight lies outside its
\* bounds; the candidate scored 0.5 is still emitted, and a candidate that
\* does not take the material is left out.
C22_MaterialAcceptScore ==
    rankOut.done =>
        \A j \in 1..Len(rankOut.cands) :
            /\ rankOut.outcomes[j].status = "scored" =>
                  /\ AcceptsInFull(rankOut.cands[j], Req.material, Req.weight_kg)
                        <=> rankOut.outcomes[j].entry.material_accept_score = 10000
                  /\ AcceptsOutsideBounds(rankOut.cands[j], Req.material, Req.weight_kg)
                        <=> rankOut.outcomes[j].entry.material_accept_score = 5000
            /\ AcceptsOutsideBounds(rankOut.cands[j], Req.material, Req.weight_kg) =>
                  Emitted(j)
            /\ (/\ FlatList(Get(rankOut.cands[j].materials_accepted, <<>>))
                /\ ~Accepts(rankOut.cands[j], Req.material)) =>
                  /\ rankOut.outcomes[j].status = "none"
                  /\ ~InResult(rankOut.cands[j].id)

\* one ranking with a flat list scored 1.0 and a record scored 0.5, both
\* returned
C22_Witness ==
    /\ rankOut.done
    /\ \E k \in 1..Len(Result) :
           /\ Result[k].material_accept_score = 5000
           /\ AcceptsOutsideBounds(DocOf(Result[k]), Req.material, Req.weight_kg)
    /\ \E k \in 1..Len(Result) :
           /\ Result[k].material_accept_score = 10000
           /\ FlatList(Get(DocOf(Result[k]).materials_accepted, <<>>))

\* the great-circle distance in metres from the requester to the candidate
CrowFlies(rec) ==
    HaversineM(Req.user_lat, Req.user_lon,
               rec.location[1].coordinates[1][2], rec.location[1].coordinates[1][1])

\* the distance in 1/100 km the entry must carry: the routing service's
\* route when it answers, the great-circle estimate when it does not
RouteKm(rec) ==
    IF Req.osrm = "down" THEN RoundDiv(CrowFlies(rec), 10)
    ELSE RoundDiv((CrowFlies(rec) * 3) \div 2, 10)

C24_CapacityScore ==
    rankOut.done =>
        \A j \in 1..Len(rankOut.cands) :
            /\ rankOut.outcomes[j].status = "scored" =>
                  /\ Get(rankOut.cands[j].max_capacity_kg, 1000) > 0 =>
                        rankOut.outcomes[j].entry.capacity_score
                            = Max(0, 10000
                                     - (Get(rankOut.cands[j].current_capacity_kg, 0) * 10000)
                                           \div Get(rankOut.cands[j].max_capacity_kg, 1000))
                  /\ Get(rankOut.cands[j].max_capacity_kg, 1000) = 0 =>
                        rankOut.outcomes[j].entry.capacity_score # 10000
            /\ (/\ Get(rankOut.cands[j].max_capacity_kg, 1000) = 0
                /\ AcceptsInFull(rankOut.cands[j], Req.material, Req.weight_kg)) =>
                  rankOut.outcomes[j].status = "scored"

\* the score of a rate (1/100 credits per kg) against the material's base rate
Capped(rate, material) ==
    Min(10000, (rate * 10000) \div MATERIAL_RATES[material])

\* C25: price_score = min(1.0, candidate_rate / base_rate(material)), the base
\* rate taken from MATERIAL_RATES and the candidate's rate being the accepting
\* record's rate_per_kg (structured shape) or the base rate times the
\* candidate's price multiplier (flat shape); a rate above the base rate
\* never scores above 1.0.
C25_PriceScore ==
    rankOut.done =>
        \A j \in 1..Len(rankOut.cands) :
            rankOut.outcomes[j].status = "scored" =>
                /\ rankOut.outcomes[j].entry.price_score <= 10000
                /\ FlatList(rankOut.cands[j].materials_accepted[1]) =>
                      rankOut.outcomes[j].entry.price_score
                          = Capped((MATERIAL_RATES[Req.material]
                                      * Get(rankOut.cands[j].price_multiplier, 100)) \div 100,
                                   Req.material)
                /\ ~FlatList(rankOut.cands[j].materials_accepted[1]) =>
                      \E k \in 1..Len(rankOut.cands[j].materials_accepted[1]) :
                          /\ RecordFor(rankOut.cands[j].materials_accepted[1][k],
                                       Req.material)
                          /\ rankOut.outcomes[j].entry.price_score
                                 = Capped(Get(rankOut.cands[j].materials_accepted[1][k]
                                                  .rate_per_kg, 0),
                                          Req.material)

\* one ranking returning a record paying half the base rate and a flat list
\* whose multiplier puts the rate above the base rate
C25_Witness ==
    /\ rankOut.done
    /\ \E k \in 1..Len(Result) :
           /\ ~FlatList(DocOf(Result[k]).materials_accepted[1])
           /\ Result[k].price_score = 5000
    /\ \E k \in 1..Len(Result) :
           /\ FlatList(DocOf(Result[k]).materials_accepted[1])
           /\ Get(DocOf(Result[k]).price_multiplier, 100) > 100
           /\ Result[k].price_score = 10000

\* the native proximity query of the request raised
NearQueryRaised == Req.store # "ok" \/ ~geoIndex

\* C26: the full scan runs exactly when the native proximity query raised (a
\* proximity query that found nothing gives an empty ranking, no scan); the
\* primary path takes at most 50 candidates; the candidates of the fallback
\* path are exactly those of the at most 100 fetched active providers that
\* have a location within 20 km great-circle distance of the requester; no
\* inactive provider is a candidate on either path.
C26_FallbackCandidates ==
    rankOut.done =>
        /\ rankOut.path = "fallback" <=> NearQueryRaised
        /\ rankOut.path = "primary" =>
              /\ Len(rankOut.cands) <= 50
              /\ rankOut.cands = <<>> => Result = <<>>
        /\ (rankOut.path = "fallback" /\ Req.store # "down") =>
              rankOut.cands = FallbackEligible
        /\ \A j \in 1..Len(rankOut.cands) : rankOut.cands[j].is_active

(***************************************************************************)
(* Properties of personal retrieval (checked under SpecRag)                *)
(***************************************************************************)
\* the stored personal document with the given id
PersonalDoc(id) == ragPersonal[id]

OwnedBy(id, u) == id \in 1..Len(ragPersonal) /\ PersonalDoc(id).user_id = u

\* C10: every document returned by retrieve_personal(u, ...), and every
\* document of the personal part of dual_retrieve(u, ...), is a stored
\* document whose user_id is u, whatever the personal index returned.
C10_PersonalScope ==
    (ragOut.done /\ ragOut.op \in {"retrieve_personal", "dual_retrieve"}) =>
        \A k \in 1..Len(ragOut.personal) :
            OwnedBy(ragOut.personal[k].id, ragOut.user_id)

\* dual_retrieve gets hits of another user's documents, and returns the
\* requester's own document only
C10_Witness ==
    /\ ragOut.done
    /\ ragOut.op = "dual_retrieve"
    /\ \E j \in 1..Len(ragOut.hits) : ~OwnedBy(ragOut.hits[j].id, ragOut.user_id)
    /\ ragOut.personal # <<>>
    /\ Len(ragOut.personal) < Len(ragOut.hits)

(***************************************************************************)
(* Properties of dual_retrieve (checked under SpecDual)                    *)
(***************************************************************************)
InFlight(task) == task.pc \notin {"created", "finished"}

\* the pair was handed to the caller
Returned == ragOut.done /\ ragOut.op = "dual_retrieve"

\* the points of a retrieval up to its index query
BeforeQuery == {"created", "loading", "searching"}

\* C11: the two retrievals of dual_retrieve run concurrently.  A retrieval
\* that has not made its index query yet can always take its next step towards
\* it, whatever the point the other retrieval has reached (the only order is
\* that of the first steps: the global one is run first), and the pair
\* (global_docs, personal_docs) is returned only when both retrievals have
\* returned, each list in its own position.
C11_Concurrent ==
    /\ ragTasks.done =>
            /\ ~ragOut.done
            /\ (ragTasks.g.pc \in BeforeQuery => ENABLED GlobalStep)
            /\ ((ragTasks.p.pc \in BeforeQuery /\ ragTasks.g.pc # "created")
                    => ENABLED PersonalStep)
    /\ Returned =>
            /\ ragTasks.g.pc = "finished" /\ ragTasks.p.pc = "finished"
            /\ ragOut.global = ragTasks.g.out
            /\ ragOut.personal = ragTasks.p.out

\* both retrievals are under way: the personal search is outstanding while
\* the global join is
C11_Witness ==
    /\ ragTasks.done
    /\ ragTasks.g.pc = "joining"
    /\ ragTasks.p.pc = "searching"
    /\ ragTasks.g.hits # <<>>

(***************************************************************************)
(* Properties of the retrievals (checked under SpecRag)                    *)
(***************************************************************************)
Ids(docs) == {docs[j].id : j \in 1..Len(docs)}

\* the score the index answered for every document of out
CarriesIndexScore(out, hits) ==
    \A i \in 1..Len(out) :
        /\ \E h \in 1..Len(hits) : hits[h].id = out[i].id
        /\ \A h \in 1..Len(hits) : hits[h].id = out[i].id => hits[h].score = out[i].score

TopKByScore(out, hits, joined, k) ==
    /\ Len(out) <= k
    /\ \A i \in 1..(Len(out) - 1) : out[i].score >= out[i + 1].score
    /\ CarriesIndexScore(out, hits)
    /\ \A j \in 1..Len(joined) :
          joined[j].id \notin Ids(out) =>
              \A i \in 1..Len(out) : joined[j].score <= out[i].score

\* C12: in each tier a retrieval asked for K documents returns at most K, in
\* non-increasing score order, each with the similarity score the index
\* answered for its id, and no document of the join that the truncation cut
\* has a strictly higher score than a returned one.
C12_TopKByScore ==
    ragOut.done =>
        /\ TopKByScore(ragOut.global, ragOut.hitsG, ragOut.joinedG, ragOut.global_top_k)
        /\ TopKByScore(ragOut.personal, ragOut.hits, ragOut.joined, ragOut.top_k)

\* in one call the global join found two documents in ascending score order
\* and the better one was returned alone, and the personal join found two
\* which were returned with the better one first
C12_Witness ==
    /\ ragOut.done
    /\ Len(ragOut.joinedG) = 2
    /\ ragOut.joinedG[1].score < ragOut.joinedG[2].score
    /\ ragOut.global = <<ragOut.joinedG[2]>>
    /\ Len(ragOut.joined) = 2
    /\ ragOut.joined[1].score < ragOut.joined[2].score
    /\ ragOut.personal = <<ragOut.joined[2], ragOut.joined[1]>>

\* a step that is a whole retrieval call
Retrieves == ~ragOut.done /\ ragOut'.done

Uncounted(doc) == [doc EXCEPT !.relevance_count = 0]

\* C21: no call of the service changes the user_id of a stored personal
\* document; a retrieval (retrieve_global, retrieve_personal, dual_retrieve)
\* changes no field of a personal document but relevance_count, adds and
\* removes none, and leaves the global store as it is.
C21_OwnerAndFieldsKept ==
    [][/\ Len(ragPersonal') >= Len(ragPersonal)
       /\ \A j \in 1..Len(ragPersonal) : ragPersonal'[j].user_id = ragPersonal[j].user_id
       /\ Retrieves =>
              /\ ragGlobal' = ragGlobal
              /\ Len(ragPersonal') = Len(ragPersonal)
              /\ \A j \in 1..Len(ragPersonal) :
                    Uncounted(ragPersonal'[j]) = Uncounted(ragPersonal[j])]_vars

\* a dual_retrieve has counted a document of its requester while the stores
\* hold a document of another user and a global document
C21_Witness ==
    /\ ragOut.done
    /\ ragOut.op = "dual_retrieve"
    /\ ragGlobal # <<>>
    /\ \E j, k \in 1..Len(ragPersonal) :
          /\ ragPersonal[j].user_id = ragOut.user_id
          /\ ragPersonal[j].relevance_count > 0
          /\ ragPersonal[k].user_id # ragOut.user_id

\* C29: a personal retrieval raises relevance_count only of the documents it
\* returns: a matching document cut by the top-K truncation, and every
\* document in a call that ends in an error and returns [], keeps its counter.
C29_OnlyReturnedAreCounted ==
    [][Retrieves =>
        \A j \in 1..Len(ragPersonal) :
            ragPersonal'[j].relevance_count # ragPersonal[j].relevance_count =>
                \E k \in 1..Len(ragOut'.personal) : ragOut'.personal[k].id = j]_vars

\* the call of dual_retrieve that ended in the outcome out
CallOf(c, out) ==
    c.user_id = out.user_id /\ c.top_k = out.top_k /\ c.fail = out.fail

\* C30: the tiers fail independently inside dual_retrieve: when the retrieval
\* of one tier fails (its store or index raises, or the requester id is not
\* valid in the personal tier) dual_retrieve returns [] for that tier and,
\* for the other, exactly what that tier's own retrieval produces; it never
\* raises.
C30_TiersFailAlone ==
    [][(Retrieves /\ ragOut'.op = "dual_retrieve") =>
        \A c \in DualCalls : CallOf(c, ragOut') =>
            /\ ragOut'.global
                   = RetrieveGlobal(RagState, c.query_embedding, 1, DualArgs(c).category,
                                    DualArgs(c).city, c.fail).out
            /\ ragOut'.personal
                   = RetrievePersonal(RagState, c.user_id, c.query_embedding, c.top_k,
                                      <<>>, c.fail).out
            /\ c.fail = "global_store" => ragOut'.global = <<>>
            /\ (c.fail = "personal_store" \/ ~ValidObjectId(c.user_id)) =>
                   ragOut'.personal = <<>>]_vars

\* a dual retrieval whose global tier failed over a store with documents the
\* index had found, and whose personal tier returned documents
C30_Witness ==
    /\ ragOut.done
    /\ ragOut.op = "dual_retrieve"
    /\ ragOut.fail = "global_store"
    /\ ragOut.hitsG # <<>>
    /\ ragGlobal # <<>>
    /\ ragOut.global = <<>>
    /\ ragOut.personal # <<>>

(***************************************************************************)
(* Properties of the startup reload (checked under SpecDual)               *)
(***************************************************************************)
\* no document has two entries in the index
NoDuplicates(index) ==
    \A a, b \in 1..Len(index) : index[a].id = index[b].id => a = b

\* every stored document with a loadable embedding has exactly one entry
LoadedOnce(coll, index) ==
    \A j \in 1..Len(coll) :
        (IsLive(coll[j]) /\ Loadable(coll[j])) =>
            Cardinality({a \in 1..Len(index) : index[a].id = coll[j].id}) = 1

\* a coroutine of the call comes back from initialize
Reloads == ragTasks.done /\ ragTasks'.done /\ ragTasks'.loads > ragTasks.loads

Stored(coll, id) == \E j \in 1..Len(coll) : coll[j].id = id /\ IsLive(coll[j])

\* the hits of the call whose document the store holds and the filter of the
\* call lets through
GlobalKept ==
    {ragGlobal[j].id : j \in {k \in 1..Len(ragGlobal) :
        /\ IsLive(ragGlobal[k])
        /\ GlobalFilter(ragGlobal[k], HitIds(ragOut.hitsG), ragOut.category, ragOut.city)}}

PersonalKept ==
    {ragPersonal[j].id : j \in {k \in 1..Len(ragPersonal) :
        /\ IsLive(ragPersonal[k])
        /\ PersonalFilter(ragPersonal[k], HitIds(ragOut.hits), ragOut.user_id,
                          ragOut.doc_type)}}

\* joined holds the kept hits and no other, and out as many of them as the
\* limit k allows
JoinsKept(out, joined, kept, k) ==
    /\ Ids(joined) = kept
    /\ Ids(out) \subseteq kept
    /\ Len(out) = Min(k, Cardinality(kept))

NoneUnstored(out, hits, coll) ==
    \A h \in 1..Len(hits) : ~Stored(coll, hits[h].id) => hits[h].id \notin Ids(out)

\* C13: a hit of the index whose id has no stored document is left out of
\* the result and fails nothing: the hits that have a stored document (one
\* the filter of the call lets through) are all joined, and returned up to the
\* limit.  The stores do not fail during the call (fail = "none") and, for
\* the personal tier, the requester's id is well-formed.
C13_SkewDropped ==
    (ragOut.done /\ ragOut.fail = "none") =>
        /\ NoneUnstored(ragOut.global, ragOut.hitsG, ragGlobal)
        /\ JoinsKept(ragOut.global, ragOut.joinedG, GlobalKept, ragOut.global_top_k)
        /\ NoneUnstored(ragOut.personal, ragOut.hits, ragPersonal)
        /\ ValidObjectId(ragOut.user_id) =>
               JoinsKept(ragOut.personal, ragOut.joined, PersonalKept, ragOut.top_k)

\* in each tier one hit has lost its document and another hit is returned
C13_Witness ==
    /\ ragOut.done
    /\ ragOut.fail = "none"
    /\ \E h \in 1..Len(ragOut.hitsG) : ~Stored(ragGlobal, ragOut.hitsG[h].id)
    /\ ragOut.global # <<>>
    /\ \E h \in 1..Len(ragOut.hits) : ~Stored(ragPersonal, ragOut.hits[h].id)
    /\ ragOut.personal # <<>>

\* the requester has no document in the personal store
EmptyCorpus(user_id) ==
    \A j \in 1..Len(ragPersonal) :
        IsLive(ragPersonal[j]) => ragPersonal[j].user_id # user_id

\* C14: dual_retrieve for a requester without personal documents returns the
\* pair of a non-empty global list, whenever the index answered the query
\* with a global document that the filter of the call lets through, and an
\* empty personal list.  (The global store does not fail during the call.)
C14_EmptyPersonalCorpus ==
    (/\ ragOut.done
     /\ ragOut.op = "dual_retrieve"
     /\ ragOut.fail # "global_store"
     /\ EmptyCorpus(ragOut.user_id)) =>
        /\ GlobalKept # {} => ragOut.global # <<>>
        /\ ragOut.personal = <<>>

\* the requester has no document, the personal index answered with those of
\* another user, and a global document is returned
C14_Witness ==
    /\ ragOut.done
    /\ ragOut.op = "dual_retrieve"
    /\ ragOut.fail = "none"
    /\ ValidObjectId(ragOut.user_id)
    /\ EmptyCorpus(ragOut.user_id)
    /\ ragOut.hits # <<>>
    /\ ragOut.global # <<>>
    /\ ragOut.personal = <<>>

(***************************************************************************)
(* Properties of the reload (checked under SpecRestart)                    *)
(***************************************************************************)
\* the documents of a store that add_* wrote
Added(doc) == IsLive(doc) /\ doc.embedding_id # <<>>

AddedAreIndexed(coll, index) ==
    \A j \in 1..Len(coll) : Added(coll[j]) => Indexed(index, coll[j].id)

\* C15: in both tiers a document added through add_* is in the index of its
\* tier once the service has initialized and answered a retrieval whose
\* stores did not fail, whether or not the index insert of the add happened
\* and whether or not the process restarted with empty indices since.
C15_ReloadRestores ==
    (ragOut.done /\ ragOut.fail = "none" /\ ragInit) =>
        /\ AddedAreIndexed(ragGlobal, idxGlobal)
        /\ AddedAreIndexed(ragPersonal, idxPersonal)

Credited(t) ==
    {i \in 1..Len(redeemCalls) :
        /\ redeemCalls[i].token = t
        /\ redeemCalls[i].pc \in {"mark_used", "log_redemption", "returned"}}

AllFinished ==
    \A i \in 1..Len(redeemCalls) : redeemCalls[i].pc \in {"returned", "raised"}

RECURSIVE UsedCredits(_, _)
\* the credits of the user's tokens with status 'used', from token i on
UsedCredits(user_id, i) ==
    IF i > Len(tokens) THEN 0
    ELSE UsedCredits(user_id, i + 1)
         + (IF tokens[i].user_id = user_id /\ tokens[i].status = "used"
            THEN tokens[i].credits ELSE 0)

\* the balance get_wallet_balance reports for the user
Balance(user_id) ==
    IF FindWallet(wallets, user_id) = 0 THEN 0
    ELSE wallets[FindWallet(wallets, user_id)].balance

\* C28: however calls of redeem_token interleave, two calls for the same
\* token and calls for different tokens of one user included, the credits of
\* a token are added to the wallet at most once, and once every call has
\* finished the balance of a user's wallet is the sum of the credits of the
\* user's tokens with status 'used'.
C28_CreditedOnce ==
    /\ \A t \in 1..Len(tokens) : Cardinality(Credited(t)) <= 1
    /\ AllFinished => \A u \in Users : Balance(u) = UsedCredits(u, 1)

====
